---- MODULE Spec2Model ----
(***************************************************************************)
(* A model of execman's installation and update engine: the registry of   *)
(* managed executables, the files on disk (regular files and symbolic     *)
(* links), the install, update, update --all, remove and forget commands *)
(* and the symlink package, one action per step.                          *)
(* The remote release host, the operator at                               *)
(* the prompts and I/O failures are the environment: every step draws     *)
(* their answer from a small set.                                         *)
(***************************************************************************)
EXTENDS Naturals, Sequences, FiniteSets, TLC

(* ------------------------------------------------------------------ *)
(* Bounds and value sets                                              *)
(* ------------------------------------------------------------------ *)

\* Number of commands run one after another in one behaviour.
MaxCmds == 1

\* Number of I/O failures and corrupted downloads in one behaviour.
MaxFaults == 1

\* Length of the input an operator types at the symlink prompt.
MaxInput == 3

Names == {"a", "b", "c"}
Owners == {"o1", "o2"}
Tags == {"v1", "v2"}
Dirs == {"bin", "home"}
Sfx == {"", "real", "bak", "realbak"}

\* Absolute paths: <dir>/<base><sfx>.  A path whose dir is "." is relative.
AbsPaths == [dir : Dirs, base : Names, sfx : Sfx]
NoPath == [dir |-> "", base |-> "", sfx |-> ""]

NoDigest == <<>>

(* ------------------------------------------------------------------ *)
(* The file system                                                    *)
(* ------------------------------------------------------------------ *)

NoEnt == [kind |-> "none", data |-> "", target |-> NoPath]
File(d) == [kind |-> "file", data |-> d, target |-> NoPath]
Link(t) == [kind |-> "link", data |-> "", target |-> t]

\* filepath.Join(dir, name)
Join(d, n) == [dir |-> d, base |-> n, sfx |-> ""]

\* path + ".backup"
BackupPath(p) == [p EXCEPT !.sfx = IF p.sfx = "" THEN "bak" ELSE "realbak"]

\* filepath.Dir(path)
DirOf(p) == p.dir

\* How a process names a file: a relative path is taken from its working directory.
Abs(cwd, p) == IF p.dir = "." THEN [p EXCEPT !.dir = cwd] ELSE p

\* How a process names a directory: "." is its working directory.
AbsDir(cwd, d) == IF d = "." THEN cwd ELSE d

\* How the kernel resolves a link's stored destination: relative to the link's directory.
LinkDest(l, t) == IF t.dir = "." THEN [t EXCEPT !.dir = l.dir] ELSE t

MaxHops == Cardinality(AbsPaths)

RECURSIVE Follow(_, _, _)
Follow(f, p, fuel) ==
    IF f[p].kind = "link" /\ fuel > 0
    THEN Follow(f, LinkDest(p, f[p].target), fuel - 1)
    ELSE p

\* The entry a link-following call (os.Stat, os.ReadFile, os.WriteFile) reaches.
Final(f, p) == Follow(f, p, MaxHops)

\* os.Stat(p) returns an error satisfying os.IsNotExist.
StatNotExist(f, p) == f[Final(f, p)].kind = "none"

\* os.ReadFile(p): the bytes, following links ("" stands for a failed read).
ReadFile(f, p) == IF f[Final(f, p)].kind = "file" THEN f[Final(f, p)].data ELSE ""
CanRead(f, p) == f[Final(f, p)].kind = "file"

\* os.WriteFile(p, data, 0755): follows links, creates or truncates.
WriteFile(f, p, d) == [f EXCEPT ![Final(f, p)] = File(d)]

\* os.WriteFile can create or open p: the directory of the file it reaches exists.
CanWrite(f, ds, p) == Final(f, p).dir \in ds

\* os.Remove(p): removes the entry itself, never what a link points to.
Remove(f, p) == [f EXCEPT ![p] = NoEnt]

(* ------------------------------------------------------------------ *)
(* Digests, archives, releases                                        *)
(* ------------------------------------------------------------------ *)

\* archive.CalculateChecksum: SHA-256 of the bytes, taken as collision free.
Hash(bytes) == <<"sha256", bytes>>

\* The archive a release publishes, and the binary inside an archive.
Tgz(tag) == IF tag = "v1" THEN "tgz_v1" ELSE "tgz_v2"
Bin(tag) == IF tag = "v1" THEN "bin_v1" ELSE "bin_v2"
Payload(archive) ==
    CASE archive = "tgz_v1" -> "bin_v1"
      [] archive = "tgz_v2" -> "bin_v2"
      [] OTHER -> "bin_bad"

\* What a download of the release's archive may deliver.
Downloads(tag) == {Tgz(tag), "tgz_bad"}

AssetLists == {<<"app_linux_amd64.tar.gz">>,
               <<"app_linux_amd64.tar.gz", "checksums.txt">>,
               <<"notes.txt">>}

\* strings.Contains(lower(name), "checksum") || strings.HasSuffix(lower(name), ".sha256")
IsChecksumAsset(a) == a \in {"checksums.txt", "app.sha256"}

HasManifest(assets) == \E i \in 1..Len(assets) : IsChecksumAsset(assets[i])

\* The asset names releases use, and how each reads against the naming templates
\* {name}_{version}_{os}_{arch}.ext (1), {name}-{version}-{os}-{arch}.ext (2),
\* {name}_{os}_{arch}.ext (3) and {name}-{os}-{arch}.ext (4); template 0 for a name
\* of no template.
AssetParts(a) ==
    LET is(t, os, arch, ext) == [template |-> t, os |-> os, arch |-> arch, ext |-> ext]
    IN CASE a = "app_v1_linux_amd64.tar.gz"  -> is(1, "linux", "amd64", "tar.gz")
         [] a = "tool_v1_linux_amd64.tar.gz" -> is(1, "linux", "amd64", "tar.gz")
         [] a = "app_v1_darwin_amd64.tar.gz" -> is(1, "darwin", "amd64", "tar.gz")
         [] a = "app_v1_windows_amd64.zip"   -> is(1, "windows", "amd64", "zip")
         [] a = "app_v1_linux_amd64.zip"     -> is(1, "linux", "amd64", "zip")
         [] a = "app-v1-linux-amd64.tar.gz"  -> is(2, "linux", "amd64", "tar.gz")
         [] a = "app_linux_amd64.tar.gz"     -> is(3, "linux", "amd64", "tar.gz")
         [] a = "app-linux-arm64.tar.gz"     -> is(4, "linux", "arm64", "tar.gz")
         [] OTHER -> is(0, "", "", "")

\* A selection that takes the first asset of the first template that matches at all.
FindAssetFirstMatch(assets, os, arch) ==
    LET ext == IF os = "windows" THEN "zip" ELSE "tar.gz"
        match(t) == {i \in 1..Len(assets) :
                       AssetParts(assets[i]) = [template |-> t, os |-> os,
                                                arch |-> arch, ext |-> ext]}
        hits == {t \in 1..4 : match(t) # {}}
    IN IF hits = {}
       THEN [ok |-> FALSE, name |-> "", listed |-> assets]
       ELSE LET t == CHOOSE u \in hits : \A v \in hits : u <= v
                i == CHOOSE j \in match(t) : \A k \in match(t) : j <= k
            IN [ok |-> TRUE, name |-> assets[i], listed |-> <<>>]

\* github.FindAsset: the asset of the first template, in their order, that exactly
\* one asset of the release matches for the platform; a template that several assets
\* match is passed over; the error carries the names of all the assets.
FindAsset(assets, os, arch) ==
    LET ext == IF os = "windows" THEN "zip" ELSE "tar.gz"
        match(t) == {i \in 1..Len(assets) :
                       AssetParts(assets[i]) = [template |-> t, os |-> os,
                                                arch |-> arch, ext |-> ext]}
        hits == {t \in 1..4 : Cardinality(match(t)) = 1}
    IN IF hits = {}
       THEN [ok |-> FALSE, name |-> "", listed |-> assets]
       ELSE LET t == CHOOSE u \in hits : \A v \in hits : u <= v
                i == CHOOSE j \in match(t) : TRUE
            IN [ok |-> TRUE, name |-> assets[i], listed |-> <<>>]

\* A release: its tag, its assets, the digest its manifest lists for the archive, and
\* whether it is a prerelease.
Releases(tag) ==
    {r \in [tag : {tag}, assets : AssetLists, sums : {NoDigest, Hash(Tgz(tag))},
            prerelease : BOOLEAN] :
        r.sums # NoDigest => HasManifest(r.assets)}
NoRelease == [tag |-> "", assets |-> <<>>, sums |-> NoDigest, prerelease |-> FALSE]

\* A setting that the option alone decides.
OptionOnly(option, config) == option

\* The effective include-prereleases setting: the option, or else the configuration's
\* value (install.go 48-50, update Run 470-472, runCheck 76-78).
IncludePrereleases(option, config) == IF ~option THEN config ELSE option

\* github.GetLatestRelease: the most recent release that passes the prerelease filter.
\* stable is the latest stable release's tag; pre is the tag of a prerelease published
\* after it, "" when there is none.
GetLatestRelease(stable, pre, includePrereleases) ==
    IF includePrereleases /\ pre # "" THEN pre ELSE stable

\* github.ToURL and github.ParseSource
ToURL(owner, repo) == <<"https://github.com", owner, repo>>
ParseSource(url) == [owner |-> url[2], repo |-> url[3]]

Platform == "linux/amd64"

(* ------------------------------------------------------------------ *)
(* The registry                                                       *)
(* ------------------------------------------------------------------ *)

Executable(source, version, path, checksum) ==
    [source |-> source, version |-> version, path |-> path,
     platform |-> Platform, checksum |-> checksum]

NoExec == Executable(<<>>, "", NoPath, NoDigest)

\* Registry.Get, Registry.Add, Registry.Remove
Has(r, n) == n \in DOMAIN r
Add(r, n, e) == [x \in (DOMAIN r) \cup {n} |-> IF x = n THEN e ELSE r[x]]
RegistryRemove(r, n) == [x \in (DOMAIN r) \ {n} |-> r[x]]

EmptyRegistry == [x \in {} |-> NoExec]

(* ------------------------------------------------------------------ *)
(* State                                                              *)
(* ------------------------------------------------------------------ *)

VARIABLES
    disk,      \* the registry file: name -> record
    fs,        \* the file system: absolute path -> entry
    dirs,      \* the directories that exist
    reg,       \* the registry loaded by the running command
    opts,      \* the running command's options
    pc,        \* the running command's position
    loc,       \* the running command's local variables
    tmp,       \* the running command's temporary directory
    result,    \* what the command returned
    ret,       \* what the last call of updateOne returned
    batch,     \* updateAll's names, loop index and counters
    kept,      \* whether a downloaded archive was copied to the working directory
    ncmd,      \* commands started so far
    faults,    \* I/O failures and corrupted downloads so far
    asked,     \* the prompts the last step put and the answers it read
    disk0,     \* the registry file when the command started
    fs0,       \* the file system when the command started
    dirs0,     \* the directories when the command started
    disk1,     \* the registry file when the current call of updateOne started
    fs1        \* the file system when the current call of updateOne started

vars == <<disk, fs, dirs, reg, opts, pc, loc, tmp, result, ret, batch, kept, ncmd, faults,
          asked, disk0, fs0, dirs0, disk1, fs1>>

snaps == <<disk0, fs0, dirs0, disk1, fs1>>

NoOpts == [op |-> "", owner |-> "", name |-> "", version |-> "", into |-> "",
           yes |-> FALSE, cwd |-> ""]

ActionCancel == "ActionCancel"
ActionReplaceTarget == "ActionReplaceTarget"
ActionReplaceSymlink == "ActionReplaceSymlink"

NoLoc == [version |-> "", release |-> NoRelease, target |-> NoPath,
          asset |-> "", checksum |-> NoDigest, verified |-> FALSE,
          expected |-> NoDigest, archive |-> "",
          exec |-> NoExec, missing |-> FALSE, isSymlink |-> FALSE,
          linkTarget |-> NoPath, action |-> ActionCancel,
          effectivePath |-> NoPath, createBackup |-> FALSE, removed |-> FALSE]
NoRet == [name |-> "", updated |-> FALSE, err |-> "", note |-> ""]
NoBatch == [names |-> <<>>, i |-> 0, updated |-> 0, upToDate |-> 0, failed |-> 0,
            log |-> <<>>]
NoKept == FALSE
NoTmp == [dir |-> FALSE, archive |-> "", sums |-> NoDigest, binary |-> ""]
NoResult == [status |-> "", err |-> ""]

\* reader.ReadString('\n') after a prompt q, giving the answer a; nothing was read.
Read(q, a) == <<[q |-> q, a |-> a]>>
NoRead == <<>>

\* The command returns: deferred os.RemoveAll(tempDir) runs, the result is set.
Finish(status, err) ==
    /\ pc' = "done"
    /\ result' = [status |-> status, err |-> err]
    /\ tmp' = NoTmp
    /\ UNCHANGED faults

\* The environment misbehaves: an I/O call fails, or a download is corrupted.
Fault ==
    /\ faults < MaxFaults
    /\ faults' = faults + 1

\* Errors that follow from what the command found, not from a failing call.
Findings == {"", "not managed", "symlink", "no matching asset",
             "checksum verification failed"}

Fail(err) ==
    /\ pc' = "done"
    /\ result' = [status |-> "err", err |-> err]
    /\ tmp' = NoTmp
    /\ IF err \in Findings THEN UNCHANGED faults ELSE Fault

\* The command goes on to its next step.
Goto(next) ==
    /\ pc' = next
    /\ UNCHANGED faults

(* ------------------------------------------------------------------ *)
(* Initial states                                                     *)
(* ------------------------------------------------------------------ *)

\* How the file of an installed executable may be found on disk.
Conds == {"ok", "modified", "missing", "link_abs", "link_rel", "link_dangling"}

RealAbs(n) == [dir |-> "home", base |-> n, sfx |-> "real"]
RealRel(n) == [dir |-> ".", base |-> n, sfx |-> "real"]

\* The entries of name n's files, installed in "bin" with content d, in condition c.
CondEntry(n, d, c, p) ==
    IF p = Join("bin", n) THEN
        CASE c = "ok" -> File(d)
          [] c = "modified" -> File("junk")
          [] c = "missing" -> NoEnt
          [] c = "link_abs" -> Link(RealAbs(n))
          [] c = "link_rel" -> Link(RealRel(n))
          [] OTHER -> Link(RealAbs(n))
    ELSE IF (c = "link_abs" /\ p = RealAbs(n)) \/ (c = "link_rel" /\ p = [RealRel(n) EXCEPT !.dir = "bin"])
    THEN File(d)
    ELSE NoEnt

\* cond: installed name -> condition, ver: installed name -> version
InitWith(cond, ver) ==
    /\ disk = [n \in DOMAIN cond |->
                 Executable(ToURL("o1", n), ver[n], Join("bin", n), Hash(Bin(ver[n])))]
    /\ fs = [p \in AbsPaths |->
               IF p.base \in DOMAIN cond
               THEN CondEntry(p.base, Bin(ver[p.base]), cond[p.base], p)
               ELSE NoEnt]
    /\ \E others \in SUBSET {"home"} :
         dirs = {"bin"} \cup others
                \cup {d \in Dirs : \E p \in AbsPaths : p.dir = d /\ fs[p].kind # "none"}
    /\ reg = EmptyRegistry
    /\ opts = NoOpts
    /\ pc = "idle"
    /\ loc = NoLoc
    /\ tmp = NoTmp
    /\ result = NoResult
    /\ ret = NoRet
    /\ batch = NoBatch
    /\ kept = NoKept
    /\ ncmd = 0
    /\ faults = 0
    /\ asked = NoRead
    /\ disk0 = disk
    /\ fs0 = fs
    /\ dirs0 = dirs
    /\ disk1 = disk
    /\ fs1 = fs

(* ------------------------------------------------------------------ *)
(* install                                                            *)
(* ------------------------------------------------------------------ *)

Begin(o) ==
    /\ pc = "idle"
    /\ ncmd < MaxCmds
    /\ ncmd' = ncmd + 1
    /\ opts' = o
    /\ loc' = NoLoc
    /\ disk0' = disk
    /\ fs0' = fs
    /\ dirs0' = dirs
    /\ disk1' = disk
    /\ fs1' = fs
    /\ asked' = NoRead
    /\ UNCHANGED <<disk, fs, dirs, kept, ret, batch>>

\* install.Run, lines 27-51: load the registry and the configuration, parse the source.
InstallStart(owner, repo, version, into, yes, option, config) ==
    /\ Begin([op |-> "install", owner |-> owner, name |-> repo, version |-> version,
              into |-> into, yes |-> yes, cwd |-> "home",
              option |-> option, config |-> config,
              includePrereleases |-> IncludePrereleases(option, config)])
    /\ \E loaded \in BOOLEAN :
         IF loaded
         THEN /\ reg' = disk
              /\ Goto("i_fetch")
              /\ UNCHANGED <<tmp, result>>
         ELSE /\ reg' = EmptyRegistry
              /\ Fail("load")

\* install.Run, lines 53-69: fetch the requested or the latest release.
InstallFetch ==
    /\ pc = "i_fetch"
    /\ \/ Fail("fetch") /\ UNCHANGED loc
       \/ \E stable \in Tags, pre \in Tags \cup {""} :
          \E rel \in Releases(IF opts.version # "" THEN opts.version
                              ELSE GetLatestRelease(stable, pre,
                                                    opts.includePrereleases)) :
            /\ pre # stable
            /\ opts.version # "" => pre = ""
            /\ pre # "" => opts.includePrereleases
            /\ rel.prerelease = (pre # "")
            /\ loc' = [loc EXCEPT !.release = rel,
                                  !.version = IF opts.version = "" THEN rel.tag
                                              ELSE opts.version]
            /\ Goto("i_confirm")
            /\ UNCHANGED <<tmp, result>>
    /\ UNCHANGED <<disk, fs, dirs, reg, opts, ncmd, ret, batch, kept, snaps>>
    /\ asked' = NoRead

Yes(answer) == answer \in {"y", "yes"}
No(answer) == answer \in {"n", "no"}
Answers == {"y", "n", ""}

\* A duplicate check against the version that was requested, not the one resolved.
AsksReinstallRequested(r, o, version) ==
    /\ Has(r, o.name)
    /\ r[o.name].version = o.version
    /\ ~o.yes

\* Whether install asks "Reinstall? (y/N)" (lines 73-76).
AsksReinstall(r, o, version) ==
    /\ Has(r, o.name)
    /\ r[o.name].version = version
    /\ ~o.yes

\* Whether install asks "Proceed with installation? (Y/n)" (line 97).
AsksProceed(yes) == ~yes

\* install.Run, lines 71-106: the duplicate check and the confirmation.
InstallConfirm ==
    /\ pc = "i_confirm"
    /\ \E a1 \in Answers, a2 \in Answers :
         LET first == AsksReinstall(reg, opts, loc.version)
             declined == first /\ ~Yes(a1)
             second == ~declined /\ AsksProceed(opts.yes)
             cancelled == declined \/ (second /\ No(a2))
         IN /\ asked' = (IF first THEN Read("reinstall", a1) ELSE NoRead)
                         \o (IF second THEN Read("proceed", a2) ELSE NoRead)
            /\ IF cancelled
               THEN Finish("ok", "cancelled") /\ UNCHANGED loc
               ELSE /\ loc' = [loc EXCEPT !.target = Join(opts.into, opts.name)]
                    /\ Goto("i_asset")
                    /\ UNCHANGED <<tmp, result>>
    /\ UNCHANGED <<disk, fs, dirs, reg, opts, ncmd, ret, batch, kept, snaps>>

\* install.Run, lines 108-118
InstallFindAsset ==
    /\ pc = "i_asset"
    /\ LET found == FindAsset(loc.release.assets, "linux", "amd64")
       IN IF found.ok
          THEN /\ loc' = [loc EXCEPT !.asset = found.name]
               /\ Goto("i_download")
               /\ UNCHANGED <<tmp, result>>
          ELSE Fail("no matching asset") /\ UNCHANGED loc
    /\ UNCHANGED <<disk, fs, dirs, reg, opts, ncmd, ret, batch, kept, snaps>>
    /\ asked' = NoRead

\* install.Run, lines 120-134: the temporary directory and the download.
InstallDownload ==
    /\ pc = "i_download"
    /\ \/ Fail("mkdtemp") /\ UNCHANGED loc
       \/ Fail("download") /\ UNCHANGED loc
       \/ \E bytes \in Downloads(loc.release.tag) :
            /\ tmp' = [tmp EXCEPT !.dir = TRUE, !.archive = bytes]
            /\ loc' = [loc EXCEPT !.archive = bytes]
            /\ pc' = "i_verify"
            /\ IF bytes = Tgz(loc.release.tag) THEN UNCHANGED faults ELSE Fault
            /\ UNCHANGED result
    /\ UNCHANGED <<disk, fs, dirs, reg, opts, ncmd, ret, batch, kept, snaps>>
    /\ asked' = NoRead

\* A verification that lets a digest mismatch pass.
VerifyOutcomeLenient(assets, sums, archive, gotManifest, hashed) ==
    IF ~HasManifest(assets) \/ ~gotManifest \/ sums = NoDigest THEN "skipped"
    ELSE IF ~hashed THEN "failed to calculate checksum"
    ELSE "verified"

\* The outcome of the verification block (lines 136-160) given whether the manifest
\* download succeeded and whether the archive could be hashed.
VerifyOutcome(assets, sums, archive, gotManifest, hashed) ==
    IF ~HasManifest(assets) \/ ~gotManifest \/ sums = NoDigest THEN "skipped"
    ELSE IF ~hashed THEN "failed to calculate checksum"
    ELSE IF Hash(archive) # sums THEN "checksum verification failed"
    ELSE "verified"

\* The digest install expects (expectedChecksum, lines 138-146): the entry of the
\* first checksum asset, when that asset was downloaded and lists the archive.
ExpectedChecksum(assets, sums, gotManifest) ==
    IF HasManifest(assets) /\ gotManifest THEN sums ELSE NoDigest

\* install.Run, lines 136-160
InstallVerify ==
    /\ pc = "i_verify"
    /\ \E gotManifest \in {HasManifest(loc.release.assets), FALSE}, hashed \in BOOLEAN :
         LET out == VerifyOutcome(loc.release.assets, loc.release.sums, tmp.archive,
                                  gotManifest, hashed)
             exp == ExpectedChecksum(loc.release.assets, loc.release.sums, gotManifest)
             lost == HasManifest(loc.release.assets) /\ ~gotManifest
         IN /\ ~hashed => out = "failed to calculate checksum"
            /\ loc' = [loc EXCEPT !.expected = exp, !.verified = (out = "verified")]
            /\ IF out \in {"skipped", "verified"}
               THEN /\ tmp' = [tmp EXCEPT !.sums = exp]
                    /\ pc' = "i_mkdir"
                    /\ IF lost THEN Fault ELSE UNCHANGED faults
                    /\ UNCHANGED result
               ELSE Fail(out)
    /\ UNCHANGED <<disk, fs, dirs, reg, opts, ncmd, ret, batch, kept, snaps>>
    /\ asked' = NoRead

\* install.Run, lines 162-166: os.MkdirAll(opts.Into, 0755)
InstallMkdir ==
    /\ pc = "i_mkdir"
    /\ \/ Fail("mkdir") /\ UNCHANGED dirs
       \/ /\ dirs' = dirs \cup {AbsDir(opts.cwd, opts.into)}
          /\ Goto("i_extract")
          /\ UNCHANGED <<tmp, result>>
    /\ UNCHANGED <<disk, fs, reg, opts, loc, ncmd, ret, batch, kept, snaps>>
    /\ asked' = NoRead

\* archive.ExtractBinary(archivePath, outputPath): writes the binary of the archive.
ExtractBinary(f, archive, out) == WriteFile(f, out, Payload(archive))

\* install.Run, lines 168-172: the binary is extracted straight to the target path.
InstallExtract ==
    /\ pc = "i_extract"
    /\ \/ Fail("extract") /\ UNCHANGED fs
       \/ /\ CanWrite(fs, dirs, Abs(opts.cwd, loc.target))
          /\ fs' = ExtractBinary(fs, tmp.archive, Abs(opts.cwd, loc.target))
          /\ Goto("i_checksum")
          /\ UNCHANGED <<tmp, result>>
    /\ UNCHANGED <<disk, dirs, reg, opts, loc, ncmd, ret, batch, kept, snaps>>
    /\ asked' = NoRead

\* install.Run, lines 174-179: archive.CalculateChecksum(targetPath)
InstallChecksum ==
    /\ pc = "i_checksum"
    /\ \/ Fail("checksum") /\ UNCHANGED loc
       \/ /\ CanRead(fs, Abs(opts.cwd, loc.target))
          /\ loc' = [loc EXCEPT !.checksum = Hash(ReadFile(fs, Abs(opts.cwd, loc.target)))]
          /\ Goto("i_register")
          /\ UNCHANGED <<tmp, result>>
    /\ UNCHANGED <<disk, fs, dirs, reg, opts, ncmd, ret, batch, kept, snaps>>
    /\ asked' = NoRead

\* A record that stores the digest of the downloaded archive instead.
InstallRecordArchiveDigest(o, l) ==
    Executable(ToURL(o.owner, o.name), l.version, l.target, Hash(l.archive))

\* The record install registers (lines 184-191).
InstallRecord(o, l) ==
    Executable(ToURL(o.owner, o.name), l.version, l.target, l.checksum)

\* install.Run, lines 181-198: reg.Add, then reg.Save.
InstallRegister ==
    /\ pc = "i_register"
    /\ reg' = Add(reg, opts.name, InstallRecord(opts, loc))
    /\ \/ Fail("save") /\ UNCHANGED disk
       \/ disk' = reg' /\ Finish("ok", "")
    /\ UNCHANGED <<fs, dirs, opts, loc, ncmd, ret, batch, kept, snaps>>
    /\ asked' = NoRead

\* The process exits; the next command starts afresh.
Return ==
    /\ pc = "done"
    /\ pc' = "idle"
    /\ reg' = EmptyRegistry
    /\ opts' = NoOpts
    /\ loc' = NoLoc
    /\ result' = NoResult
    /\ ret' = NoRet
    /\ batch' = NoBatch
    /\ disk0' = disk
    /\ fs0' = fs
    /\ dirs0' = dirs
    /\ disk1' = disk
    /\ fs1' = fs
    /\ asked' = NoRead
    /\ UNCHANGED <<disk, fs, dirs, kept, tmp, ncmd, faults>>

(* ------------------------------------------------------------------ *)
(* Specification of install                                           *)
(* ------------------------------------------------------------------ *)

InitInstall ==
    \E S \in {{}, {"a"}, {"a", "b"}} :
    \E cond \in [S -> Conds] :
    \E ver \in [S -> Tags] :
        /\ \A n \in S : n # "a" => cond[n] = "ok" /\ ver[n] = "v1"
        /\ InitWith(cond, ver)

InstallBegin ==
    \E version \in Tags \cup {""}, into \in Dirs, yes \in BOOLEAN :
        InstallStart("o1", "a", version, into, yes, FALSE, FALSE)

InstallSteps ==
    \/ InstallFetch
    \/ InstallConfirm
    \/ InstallFindAsset
    \/ InstallDownload
    \/ InstallVerify
    \/ InstallMkdir
    \/ InstallExtract
    \/ InstallChecksum
    \/ InstallRegister

NextInstall ==
    \/ InstallBegin
    \/ InstallSteps
    \/ Return

SpecInstall == InitInstall /\ [][NextInstall]_vars

(* ------------------------------------------------------------------ *)
(* update: updateOne                                                  *)
(* ------------------------------------------------------------------ *)

\* updateAll's counters after one call of updateOne (lines 496-504).
Tally(b, updated, err, note) ==
    [b EXCEPT !.i = @ + 1,
              !.failed = IF err # "" THEN @ + 1 ELSE @,
              !.updated = IF err = "" /\ updated THEN @ + 1 ELSE @,
              !.upToDate = IF err = "" /\ ~updated THEN @ + 1 ELSE @,
              !.log = Append(@, [name |-> opts.name, updated |-> updated,
                                 err |-> err, note |-> note])]

\* updateOne returns (updated, err): its deferred os.RemoveAll(tmpDir) runs; Run
\* returns the error (lines 478-479), updateAll counts it and goes on (lines 496-505).
ReturnOne(updated, err, note) ==
    /\ ret' = [name |-> opts.name, updated |-> updated, err |-> err, note |-> note]
    /\ tmp' = NoTmp
    /\ IF err \in Findings THEN UNCHANGED faults ELSE Fault
    /\ IF opts.op = "update"
       THEN /\ pc' = "done"
            /\ result' = [status |-> IF err = "" THEN "ok" ELSE "err", err |-> err]
            /\ UNCHANGED batch
       ELSE /\ pc' = "a_next"
            /\ batch' = Tally(batch, updated, err, note)
            /\ UNCHANGED result

\* update.Run, lines 458-480, for one name, run from an existing working directory.
UpdateStart(name, yes, cwd, option, config) ==
    /\ cwd \in dirs
    /\ Begin([op |-> "update", owner |-> "", name |-> name, version |-> "",
              into |-> "", yes |-> yes, cwd |-> cwd,
              option |-> option, config |-> config,
              includePrereleases |-> IncludePrereleases(option, config)])
    /\ \E loaded \in BOOLEAN :
         IF loaded
         THEN /\ reg' = disk
              /\ Goto("u_get")
              /\ UNCHANGED <<tmp, result>>
         ELSE /\ reg' = EmptyRegistry
              /\ Fail("load")

\* updateOne, lines 511-516 and 522
UpdateGet ==
    /\ pc = "u_get"
    /\ IF Has(reg, opts.name)
       THEN /\ loc' = [loc EXCEPT !.exec = reg[opts.name],
                                  !.effectivePath = reg[opts.name].path]
            /\ Goto("u_inspect")
            /\ UNCHANGED <<tmp, result, ret, batch>>
       ELSE ReturnOne(FALSE, "not managed", "") /\ UNCHANGED loc
    /\ UNCHANGED <<disk, fs, dirs, reg, opts, ncmd, kept, snaps>>
    /\ asked' = NoRead

\* An inspection with os.Stat, which follows links.
CheckFollowing(f, cwd, path) ==
    [IsSymlink |-> f[Final(f, Abs(cwd, path))].kind = "link",
     Path |-> path,
     Target |-> IF f[Final(f, Abs(cwd, path))].kind = "link"
                THEN f[Final(f, Abs(cwd, path))].target
                ELSE NoPath]

\* symlink.Check, lines 33-62: os.Lstat, then os.Readlink for a link.
Check(f, cwd, path) ==
    [IsSymlink |-> f[Abs(cwd, path)].kind = "link",
     Path |-> path,
     Target |-> IF f[Abs(cwd, path)].kind = "link" THEN f[Abs(cwd, path)].target
                ELSE NoPath]

\* Whether symlink.Check can return an error (lines 41-48 and 54-57): never for a
\* path with no entry, for which os.Lstat reports that it does not exist.
CheckCanFail(f, cwd, path) == f[Abs(cwd, path)].kind # "none"

\* What is typed at a prompt: characters, with or without the end of the line.
Space == {" ", "\n"}
Inputs == UNION {[1..n -> {"1", "2", "3"} \cup Space] : n \in 0..MaxInput}

\* reader.ReadString('\n'): the input up to and including the first end of line, or
\* all of it when the input ends first (the error is dropped, line 75).
RECURSIVE ReadString(_)
ReadString(input) ==
    IF input = <<>> THEN <<>>
    ELSE IF Head(input) = "\n" THEN <<"\n">>
    ELSE <<Head(input)>> \o ReadString(Tail(input))

\* A response that is taken as typed.
Untrimmed(str) == str

\* strings.TrimSpace
RECURSIVE TrimSpace(_)
TrimSpace(str) ==
    IF str = <<>> THEN <<>>
    ELSE IF Head(str) \in Space THEN TrimSpace(Tail(str))
    ELSE IF str[Len(str)] \in Space THEN TrimSpace(SubSeq(str, 1, Len(str) - 1))
    ELSE str

\* The response as the string the switch compares (lines 78-85); "other" stands for
\* every response of more than one character.
Word(str) ==
    CASE str = <<>> -> ""
      [] Len(str) = 1 -> str[1]
      [] OTHER -> "other"

\* An effective path that is the target unless the link itself is replaced.
ResolveTargetUnlessSymlink(info, action) ==
    IF action = ActionReplaceSymlink THEN info.Path ELSE info.Target

\* symlink.PromptAction, lines 64-86
PromptAction(response) ==
    CASE response = "1" -> ActionReplaceTarget
      [] response = "2" -> ActionReplaceSymlink
      [] OTHER -> ActionCancel

\* symlink.ResolveTarget, lines 93-101
ResolveTarget(info, action) ==
    IF action = ActionReplaceTarget THEN info.Target ELSE info.Path

Choices == {"1", "2", "3", ""}

\* Whether updateOne takes the file for missing (line 524): os.Stat follows links.
ExecutableMissing(f, cwd, path) == StatNotExist(f, Abs(cwd, path))

\* updateOne, lines 518-546: the existence check and the symlink decision.
UpdateInspect ==
    /\ pc = "u_inspect"
    /\ IF ExecutableMissing(fs, opts.cwd, loc.exec.path)
       THEN /\ loc' = [loc EXCEPT !.missing = TRUE]
            /\ asked' = NoRead
            /\ Goto("u_fetch")
            /\ UNCHANGED <<tmp, result, ret, batch>>
       ELSE \/ /\ ReturnOne(FALSE, "failed to check path", "")
               /\ asked' = NoRead
               /\ UNCHANGED loc
            \/ LET info == Check(fs, opts.cwd, loc.exec.path)
               IN IF ~info.IsSymlink
                  THEN /\ Goto("u_fetch")
                       /\ asked' = NoRead
                       /\ UNCHANGED <<loc, tmp, result, ret, batch>>
                  ELSE IF opts.yes
                  THEN /\ loc' = [loc EXCEPT !.isSymlink = TRUE, !.linkTarget = info.Target]
                       /\ asked' = NoRead
                       /\ ReturnOne(FALSE, "symlink", "")
                  ELSE \E response \in Choices :
                         LET action == PromptAction(response)
                         IN /\ asked' = Read("symlink", response)
                            /\ loc' = [loc EXCEPT !.isSymlink = TRUE,
                                                  !.linkTarget = info.Target,
                                                  !.action = action,
                                                  !.effectivePath =
                                                      IF action = ActionCancel THEN @
                                                      ELSE ResolveTarget(info, action)]
                            /\ IF action = ActionCancel
                               THEN ReturnOne(FALSE, "", "cancelled")
                               ELSE /\ Goto("u_fetch")
                                    /\ UNCHANGED <<tmp, result, ret, batch>>
    /\ UNCHANGED <<disk, fs, dirs, reg, opts, ncmd, kept, snaps>>

\* updateOne, lines 548-561: github.GetLatestRelease
UpdateFetch ==
    /\ pc = "u_fetch"
    /\ \/ ReturnOne(FALSE, "fetch", "") /\ UNCHANGED loc
       \/ \E stable \in Tags, pre \in Tags \cup {""} :
          \E rel \in Releases(GetLatestRelease(stable, pre, opts.includePrereleases)) :
            /\ pre # stable
            /\ pre # "" => opts.includePrereleases
            /\ rel.prerelease = (pre # "")
            /\ loc' = [loc EXCEPT !.release = rel, !.version = rel.tag]
            /\ Goto("u_decide")
            /\ UNCHANGED <<tmp, result, ret, batch>>
    /\ UNCHANGED <<disk, fs, dirs, reg, opts, ncmd, kept, snaps>>
    /\ asked' = NoRead

ReinstallAnswers == {"y", "r", "l", "n"}

\* A decision that tests for "already up to date" before it tests for a missing file.
DecideUpToDateFirst(missing, yes, recorded, latest, answer) ==
    IF recorded = latest THEN "uptodate"
    ELSE IF missing
    THEN IF yes THEN "proceed"
         ELSE CASE answer \in {"r", "recorded"} -> "recorded"
                [] answer \in {"l", "latest"} -> "proceed"
                [] OTHER -> "cancelled"
    ELSE IF yes \/ Yes(answer) THEN "proceed" ELSE "cancelled"

\* A decision without the "already up to date" test.
DecideIgnoresUpToDate(missing, yes, recorded, latest, answer) ==
    IF missing
    THEN IF yes THEN "proceed"
         ELSE IF recorded = latest
              THEN (IF Yes(answer) THEN "proceed" ELSE "cancelled")
              ELSE CASE answer \in {"r", "recorded"} -> "recorded"
                     [] answer \in {"l", "latest"} -> "proceed"
                     [] OTHER -> "cancelled"
    ELSE IF yes \/ Yes(answer) THEN "proceed" ELSE "cancelled"

\* What updateOne does after the release lookup (lines 563-626):
\* "proceed", "recorded" (fetch the recorded version), "uptodate" or "cancelled".
Decide(missing, yes, recorded, latest, answer) ==
    IF missing
    THEN IF yes THEN "proceed"
         ELSE IF recorded = latest
              THEN (IF Yes(answer) THEN "proceed" ELSE "cancelled")
              ELSE CASE answer \in {"r", "recorded"} -> "recorded"
                     [] answer \in {"l", "latest"} -> "proceed"
                     [] OTHER -> "cancelled"
    ELSE IF recorded = latest THEN "uptodate"
         ELSE IF yes \/ Yes(answer) THEN "proceed" ELSE "cancelled"

\* The question updateOne puts after the release lookup (lines 570-575 and 616-617),
\* "" when it puts none.
Question(missing, yes, recorded, latest) ==
    IF yes THEN ""
    ELSE IF missing THEN (IF recorded = latest THEN "reinstall" ELSE "choose")
    ELSE IF recorded = latest THEN "" ELSE "update"

\* Whether updateOne asks about a backup (line 630).
AsksBackup(missing, yes) == ~missing /\ ~yes

\* Whether a backup is made (lines 628-636).
CreateBackup(missing, yes, answer) == AsksBackup(missing, yes) /\ Yes(answer)

\* updateOne, lines 563-636: reinstall or update, the confirmation, the backup question.
UpdateDecide ==
    /\ pc = "u_decide"
    /\ \E answer \in ReinstallAnswers, bk \in Answers :
         LET d == Decide(loc.missing, opts.yes, loc.exec.version, loc.version, answer)
             withBackup == [loc EXCEPT !.createBackup =
                                CreateBackup(loc.missing, opts.yes, bk)]
             q == Question(loc.missing, opts.yes, loc.exec.version, loc.version)
             first == IF q = "" THEN NoRead ELSE Read(q, answer)
             second == IF AsksBackup(loc.missing, opts.yes) THEN Read("backup", bk)
                       ELSE NoRead
         IN CASE d = "uptodate" ->
                   /\ asked' = first
                   /\ ReturnOne(FALSE, "", "uptodate")
                   /\ UNCHANGED loc
              [] d = "cancelled" ->
                   /\ asked' = first
                   /\ ReturnOne(FALSE, "", "cancelled")
                   /\ UNCHANGED loc
              [] d = "recorded" ->
                   \/ /\ asked' = first
                      /\ ReturnOne(FALSE, "failed to fetch recorded version", "")
                      /\ UNCHANGED loc
                   \/ \E rel \in Releases(loc.exec.version) :
                        /\ ~rel.prerelease
                        /\ asked' = first \o second
                        /\ loc' = [withBackup EXCEPT !.release = rel,
                                                     !.version = loc.exec.version]
                        /\ Goto("u_asset")
                        /\ UNCHANGED <<tmp, result, ret, batch>>
              [] OTHER ->
                   /\ asked' = first \o second
                   /\ loc' = withBackup
                   /\ Goto("u_asset")
                   /\ UNCHANGED <<tmp, result, ret, batch>>
    /\ UNCHANGED <<disk, fs, dirs, reg, opts, ncmd, kept, snaps>>

\* updateOne, lines 638-642
UpdateFindAsset ==
    /\ pc = "u_asset"
    /\ LET found == FindAsset(loc.release.assets, "linux", "amd64")
       IN IF found.ok
          THEN /\ loc' = [loc EXCEPT !.asset = found.name]
               /\ Goto("u_download")
               /\ UNCHANGED <<tmp, result, ret, batch>>
          ELSE ReturnOne(FALSE, "no matching asset", "") /\ UNCHANGED loc
    /\ UNCHANGED <<disk, fs, dirs, reg, opts, ncmd, kept, snaps>>
    /\ asked' = NoRead

\* updateOne, lines 644-656
UpdateDownload ==
    /\ pc = "u_download"
    /\ \/ ReturnOne(FALSE, "mkdtemp", "") /\ UNCHANGED loc
       \/ ReturnOne(FALSE, "download", "") /\ UNCHANGED loc
       \/ \E bytes \in Downloads(loc.release.tag) :
            /\ tmp' = [tmp EXCEPT !.dir = TRUE, !.archive = bytes]
            /\ loc' = [loc EXCEPT !.archive = bytes]
            /\ pc' = "u_extract"
            /\ IF bytes = Tgz(loc.release.tag) THEN UNCHANGED faults ELSE Fault
            /\ UNCHANGED <<result, ret, batch>>
    /\ UNCHANGED <<disk, fs, dirs, reg, opts, ncmd, kept, snaps>>
    /\ asked' = NoRead

\* An extraction straight onto the effective path, as install does it.
UpdateExtractInPlace ==
    /\ pc = "u_extract"
    /\ \/ ReturnOne(FALSE, "extract", "") /\ UNCHANGED <<loc, fs>>
       \/ ReturnOne(FALSE, "failed to calculate checksum", "") /\ UNCHANGED <<loc, fs>>
       \/ /\ tmp' = [tmp EXCEPT !.binary = Payload(tmp.archive)]
          /\ fs' = IF CanWrite(fs, dirs, Abs(opts.cwd, loc.effectivePath))
                   THEN WriteFile(fs, Abs(opts.cwd, loc.effectivePath), Payload(tmp.archive))
                   ELSE fs
          /\ loc' = [loc EXCEPT !.checksum = Hash(Payload(tmp.archive))]
          /\ Goto("u_mkdir")
          /\ UNCHANGED <<result, ret, batch>>
    /\ asked' = NoRead
    /\ UNCHANGED <<disk, dirs, reg, opts, ncmd, kept, snaps>>

\* updateOne, lines 658-669: extract to <tmpDir>/binary and hash it.
UpdateExtract ==
    /\ pc = "u_extract"
    /\ \/ ReturnOne(FALSE, "extract", "") /\ UNCHANGED loc
       \/ ReturnOne(FALSE, "failed to calculate checksum", "") /\ UNCHANGED loc
       \/ /\ tmp' = [tmp EXCEPT !.binary = Payload(tmp.archive)]
          /\ loc' = [loc EXCEPT !.checksum = Hash(Payload(tmp.archive))]
          /\ Goto("u_mkdir")
          /\ UNCHANGED <<result, ret, batch>>
    /\ UNCHANGED <<disk, fs, dirs, reg, opts, ncmd, kept, snaps>>
    /\ asked' = NoRead

\* updateOne, lines 671-675: os.MkdirAll(filepath.Dir(effectivePath), 0750)
UpdateMkdir ==
    /\ pc = "u_mkdir"
    /\ \/ ReturnOne(FALSE, "failed to create target directory", "") /\ UNCHANGED dirs
       \/ /\ dirs' = dirs \cup {DirOf(Abs(opts.cwd, loc.effectivePath))}
          /\ Goto("u_backup")
          /\ UNCHANGED <<tmp, result, ret, batch>>
    /\ UNCHANGED <<disk, fs, reg, opts, loc, ncmd, kept, snaps>>
    /\ asked' = NoRead

\* What a failed os.WriteFile may leave at p: nothing new, or a truncated file.
FailedWrites(f, ds, p) ==
    {f} \cup (IF CanWrite(f, ds, p) THEN {WriteFile(f, p, "partial")} ELSE {})

\* copyFile, lines 738-746, succeeding: os.ReadFile(src), os.WriteFile(dst).
copyFile(f, data, dst) == WriteFile(f, dst, data)

\* A backup whose failure is not noticed.
UpdateBackupIgnoringError ==
    /\ pc = "u_backup"
    /\ LET src == Abs(opts.cwd, loc.effectivePath)
           dst == Abs(opts.cwd, BackupPath(loc.effectivePath))
       IN IF ~loc.createBackup
          THEN /\ Goto("u_remove")
               /\ UNCHANGED fs
          ELSE \/ /\ fs' \in FailedWrites(fs, dirs, dst)
                  /\ pc' = "u_remove"
                  /\ Fault
               \/ /\ CanRead(fs, src)
                  /\ CanWrite(fs, dirs, dst)
                  /\ fs' = copyFile(fs, ReadFile(fs, src), dst)
                  /\ Goto("u_remove")
    /\ asked' = NoRead
    /\ UNCHANGED <<disk, dirs, reg, opts, loc, ncmd, kept, snaps, tmp, result, ret, batch>>

\* updateOne, lines 677-684: the backup of the current binary.
UpdateBackup ==
    /\ pc = "u_backup"
    /\ LET src == Abs(opts.cwd, loc.effectivePath)
           dst == Abs(opts.cwd, BackupPath(loc.effectivePath))
       IN IF ~loc.createBackup
          THEN /\ Goto("u_remove")
               /\ UNCHANGED <<fs, tmp, result, ret, batch>>
          ELSE \/ /\ fs' \in FailedWrites(fs, dirs, dst)
                  /\ ReturnOne(FALSE, "failed to create backup", "")
               \/ /\ CanRead(fs, src)
                  /\ CanWrite(fs, dirs, dst)
                  /\ fs' = copyFile(fs, ReadFile(fs, src), dst)
                  /\ Goto("u_remove")
                  /\ UNCHANGED <<tmp, result, ret, batch>>
    /\ UNCHANGED <<disk, dirs, reg, opts, loc, ncmd, kept, snaps>>
    /\ asked' = NoRead

\* updateOne, lines 686-690: os.Remove(effectivePath); a missing file is no error.
UpdateRemove ==
    /\ pc = "u_remove"
    /\ \/ /\ fs[Abs(opts.cwd, loc.effectivePath)].kind # "none"
          /\ ReturnOne(FALSE, "failed to remove old executable", "")
          /\ UNCHANGED <<fs, loc>>
       \/ /\ fs' = Remove(fs, Abs(opts.cwd, loc.effectivePath))
          /\ loc' = [loc EXCEPT !.removed = TRUE]
          /\ Goto("u_write")
          /\ UNCHANGED <<tmp, result, ret, batch>>
    /\ UNCHANGED <<disk, dirs, reg, opts, ncmd, kept, snaps>>
    /\ asked' = NoRead

\* updateOne, lines 692-694: copyFile(binaryPath, effectivePath)
UpdateWrite ==
    /\ pc = "u_write"
    /\ LET dst == Abs(opts.cwd, loc.effectivePath)
       IN \/ /\ fs' \in FailedWrites(fs, dirs, dst)
             /\ ReturnOne(FALSE, "failed to install new executable", "")
          \/ /\ CanWrite(fs, dirs, dst)
             /\ fs' = copyFile(fs, tmp.binary, dst)
             /\ Goto("u_chmod")
             /\ UNCHANGED <<tmp, result, ret, batch>>
    /\ UNCHANGED <<disk, dirs, reg, opts, loc, ncmd, kept, snaps>>
    /\ asked' = NoRead

\* updateOne, lines 696-700: os.Chmod(effectivePath, 0755)
UpdateChmod ==
    /\ pc = "u_chmod"
    /\ \/ ReturnOne(FALSE, "failed to set executable permissions", "")
       \/ /\ Goto("u_register")
          /\ UNCHANGED <<tmp, result, ret, batch>>
    /\ UNCHANGED <<disk, fs, dirs, reg, opts, loc, ncmd, kept, snaps>>
    /\ asked' = NoRead

\* A record whose path follows the effective path for either decision on a link.
UpdatedRecordRetargeted(l) ==
    [l.exec EXCEPT !.path = IF l.isSymlink THEN l.effectivePath ELSE @,
                   !.version = l.version,
                   !.checksum = l.checksum]

\* The record updateOne stores (lines 702-708).
UpdatedRecord(l) ==
    [l.exec EXCEPT !.path = IF l.isSymlink /\ l.action = ActionReplaceSymlink
                            THEN l.effectivePath ELSE @,
                   !.version = l.version,
                   !.checksum = l.checksum]

\* updateOne, lines 702-713: reg.Add, then reg.Save.
UpdateRegister ==
    /\ pc = "u_register"
    /\ reg' = Add(reg, opts.name, UpdatedRecord(loc))
    /\ \/ /\ ReturnOne(FALSE, "failed to update registry", "")
          /\ UNCHANGED disk
       \/ /\ disk' = reg'
          /\ Goto("u_cleanup")
          /\ UNCHANGED <<tmp, result, ret, batch>>
    /\ UNCHANGED <<fs, dirs, opts, loc, ncmd, kept, snaps>>
    /\ asked' = NoRead

\* A cleanup question that is put whatever the options say.
AsksCleanupAlways(yes) == TRUE

\* Whether updateOne asks "Delete download archive? [Y/n]" (line 718).
AsksCleanup(yes) == ~yes

\* Whether the archive is copied to the working directory (lines 718-733).
KeepsArchive(yes, answer) == AsksCleanup(yes) /\ ~(answer = "" \/ Yes(answer))

\* updateOne, lines 715-735: the archive is deleted, or copied to the working directory.
UpdateCleanup ==
    /\ pc = "u_cleanup"
    /\ \E answer \in Answers :
         /\ asked' = (IF AsksCleanup(opts.yes) THEN Read("cleanup", answer) ELSE NoRead)
         /\ kept' = (kept \/ KeepsArchive(opts.yes, answer))
         /\ ReturnOne(TRUE, "", "updated")
    /\ UNCHANGED <<disk, fs, dirs, reg, opts, loc, ncmd, snaps>>

(* ------------------------------------------------------------------ *)
(* update --all: updateAll                                            *)
(* ------------------------------------------------------------------ *)

\* Registry.List: every managed name once, in no particular order.
Lists(r) ==
    {s \in [1..Cardinality(DOMAIN r) -> DOMAIN r] :
        \A i, j \in DOMAIN s : i # j => s[i] # s[j]}

\* update.Run, lines 458-476, and updateAll, lines 482-491.
UpdateAllStart(yes, cwd, option, config) ==
    /\ cwd \in dirs
    /\ Begin([op |-> "updateAll", owner |-> "", name |-> "", version |-> "",
              into |-> "", yes |-> yes, cwd |-> cwd,
              option |-> option, config |-> config,
              includePrereleases |-> IncludePrereleases(option, config)])
    /\ \E loaded \in BOOLEAN :
         IF loaded
         THEN /\ reg' = disk
              /\ Goto("a_list")
              /\ UNCHANGED <<tmp, result>>
         ELSE /\ reg' = EmptyRegistry
              /\ Fail("load")

\* updateAll, lines 483-491
UpdateAllList ==
    /\ pc = "a_list"
    /\ \E names \in Lists(reg) :
         IF Len(names) = 0
         THEN Finish("ok", "") /\ UNCHANGED batch
         ELSE /\ batch' = [NoBatch EXCEPT !.names = names, !.i = 1]
              /\ Goto("a_next")
              /\ UNCHANGED <<tmp, result>>
    /\ UNCHANGED <<disk, fs, dirs, reg, opts, loc, ncmd, ret, kept, snaps>>
    /\ asked' = NoRead

\* A loop that stops at the first item that failed.
UpdateAllNextAbort ==
    /\ pc = "a_next"
    /\ IF batch.i <= Len(batch.names) /\ batch.failed = 0
       THEN /\ opts' = [opts EXCEPT !.name = batch.names[batch.i]]
            /\ loc' = NoLoc
            /\ ret' = NoRet
            /\ disk1' = disk
            /\ fs1' = fs
            /\ Goto("u_get")
            /\ UNCHANGED <<tmp, result>>
       ELSE /\ Finish("ok", "")
            /\ UNCHANGED <<opts, loc, ret, disk1, fs1>>
    /\ UNCHANGED <<disk, fs, dirs, reg, ncmd, batch, kept, disk0, fs0, dirs0>>
    /\ asked' = NoRead

\* A loop that stops at the first item the operator declined.
UpdateAllNextStopsAtCancel ==
    /\ pc = "a_next"
    /\ IF batch.i <= Len(batch.names) /\ ret.note # "cancelled"
       THEN /\ opts' = [opts EXCEPT !.name = batch.names[batch.i]]
            /\ loc' = NoLoc
            /\ ret' = NoRet
            /\ disk1' = disk
            /\ fs1' = fs
            /\ Goto("u_get")
            /\ UNCHANGED <<tmp, result>>
       ELSE /\ Finish("ok", "")
            /\ UNCHANGED <<opts, loc, ret, disk1, fs1>>
    /\ UNCHANGED <<disk, fs, dirs, reg, ncmd, batch, kept, disk0, fs0, dirs0>>
    /\ asked' = NoRead

\* A loop whose command fails when an item failed.
UpdateAllNextFails ==
    /\ pc = "a_next"
    /\ IF batch.i <= Len(batch.names)
       THEN /\ opts' = [opts EXCEPT !.name = batch.names[batch.i]]
            /\ loc' = NoLoc
            /\ ret' = NoRet
            /\ disk1' = disk
            /\ fs1' = fs
            /\ Goto("u_get")
            /\ UNCHANGED <<tmp, result>>
       ELSE /\ IF batch.failed > 0 THEN Finish("err", "") ELSE Finish("ok", "")
            /\ UNCHANGED <<opts, loc, ret, disk1, fs1>>
    /\ UNCHANGED <<disk, fs, dirs, reg, ncmd, batch, kept, disk0, fs0, dirs0>>
    /\ asked' = NoRead

\* updateAll, lines 493-496 and 507-508: the next name, or the report.
UpdateAllNext ==
    /\ pc = "a_next"
    /\ IF batch.i <= Len(batch.names)
       THEN /\ opts' = [opts EXCEPT !.name = batch.names[batch.i]]
            /\ loc' = NoLoc
            /\ ret' = NoRet
            /\ disk1' = disk
            /\ fs1' = fs
            /\ Goto("u_get")
            /\ UNCHANGED <<tmp, result>>
       ELSE /\ Finish("ok", "")
            /\ UNCHANGED <<opts, loc, ret, disk1, fs1>>
    /\ UNCHANGED <<disk, fs, dirs, reg, ncmd, batch, kept, disk0, fs0, dirs0>>
    /\ asked' = NoRead

(* ------------------------------------------------------------------ *)
(* remove and forget                                                  *)
(* ------------------------------------------------------------------ *)

\* Remove, lines 44-49, run from an existing working directory.
RemoveStart(name, yes, cwd) ==
    /\ cwd \in dirs
    /\ Begin([op |-> "remove", owner |-> "", name |-> name, version |-> "",
              into |-> "", yes |-> yes, cwd |-> cwd])
    /\ \E loaded \in BOOLEAN :
         IF loaded
         THEN /\ reg' = disk
              /\ Goto("r_get")
              /\ UNCHANGED <<tmp, result>>
         ELSE /\ reg' = EmptyRegistry
              /\ Fail("load")

\* Remove, lines 51-58
RemoveGet ==
    /\ pc = "r_get"
    /\ IF Has(reg, opts.name)
       THEN /\ loc' = [loc EXCEPT !.exec = reg[opts.name],
                                  !.effectivePath = reg[opts.name].path]
            /\ Goto("r_inspect")
            /\ UNCHANGED <<tmp, result>>
       ELSE Fail("not managed") /\ UNCHANGED loc
    /\ asked' = NoRead
    /\ UNCHANGED <<disk, fs, dirs, reg, opts, ncmd, ret, batch, kept, snaps>>

\* Remove, lines 62-79: the symlink check and decision.
RemoveInspect ==
    /\ pc = "r_inspect"
    /\ \/ /\ CheckCanFail(fs, opts.cwd, loc.exec.path)
          /\ Fail("failed to check path")
          /\ asked' = NoRead
          /\ UNCHANGED loc
       \/ LET info == Check(fs, opts.cwd, loc.exec.path)
          IN IF ~info.IsSymlink
             THEN /\ Goto("r_confirm")
                  /\ asked' = NoRead
                  /\ UNCHANGED <<loc, tmp, result>>
             ELSE IF opts.yes
             THEN /\ loc' = [loc EXCEPT !.isSymlink = TRUE, !.linkTarget = info.Target]
                  /\ asked' = NoRead
                  /\ Fail("symlink")
             ELSE \E response \in Choices :
                    LET action == PromptAction(response)
                    IN /\ asked' = Read("symlink", response)
                       /\ loc' = [loc EXCEPT !.isSymlink = TRUE,
                                             !.linkTarget = info.Target,
                                             !.action = action,
                                             !.effectivePath =
                                                 IF action = ActionCancel THEN @
                                                 ELSE ResolveTarget(info, action)]
                       /\ IF action = ActionCancel
                          THEN Finish("ok", "cancelled")
                          ELSE /\ Goto("r_confirm")
                               /\ UNCHANGED <<tmp, result>>
    /\ UNCHANGED <<disk, fs, dirs, reg, opts, ncmd, ret, batch, kept, snaps>>

\* Whether remove and forget ask "Continue? [y/N]" (remove line 82, forget line 57).
AsksContinue(yes) == ~yes

\* Remove, lines 81-103: the confirmation.
RemoveConfirm ==
    /\ pc = "r_confirm"
    /\ \E answer \in Answers :
         /\ asked' = (IF AsksContinue(opts.yes) THEN Read("continue", answer) ELSE NoRead)
         /\ IF AsksContinue(opts.yes) /\ ~Yes(answer)
            THEN Finish("ok", "cancelled")
            ELSE /\ Goto("r_remove")
                 /\ UNCHANGED <<tmp, result>>
    /\ UNCHANGED <<disk, fs, dirs, reg, opts, loc, ncmd, ret, batch, kept, snaps>>

\* A removal that takes a missing file for a failure.
RemoveFileStrict ==
    /\ pc = "r_remove"
    /\ LET path == Abs(opts.cwd, loc.effectivePath)
           link == Abs(opts.cwd, loc.exec.path)
           both == loc.isSymlink /\ loc.action = ActionReplaceTarget
       IN \/ /\ fs[path].kind # "none"
             /\ Fail("failed to remove executable")
             /\ UNCHANGED <<fs, loc>>
          \/ /\ fs[path].kind = "none"
             /\ pc' = "done"
             /\ result' = [status |-> "err", err |-> "failed to remove executable"]
             /\ tmp' = NoTmp
             /\ UNCHANGED <<fs, loc, faults>>
          \/ /\ fs[path].kind # "none"
             /\ fs' = IF both THEN Remove(Remove(fs, path), link) ELSE Remove(fs, path)
             /\ loc' = [loc EXCEPT !.removed = TRUE]
             /\ Goto("r_register")
             /\ UNCHANGED <<tmp, result>>
    /\ asked' = NoRead
    /\ UNCHANGED <<disk, dirs, reg, opts, ncmd, ret, batch, kept, snaps>>

\* Remove, lines 105-119: os.Remove(effectivePath), a missing file is only warned
\* about; after the target the link is removed too, a failure is only warned about.
RemoveFile ==
    /\ pc = "r_remove"
    /\ LET path == Abs(opts.cwd, loc.effectivePath)
           link == Abs(opts.cwd, loc.exec.path)
           both == loc.isSymlink /\ loc.action = ActionReplaceTarget
       IN \/ /\ fs[path].kind # "none"
             /\ Fail("failed to remove executable")
             /\ UNCHANGED <<fs, loc>>
          \/ /\ fs' = IF both THEN Remove(Remove(fs, path), link) ELSE Remove(fs, path)
             /\ loc' = [loc EXCEPT !.removed = TRUE]
             /\ Goto("r_register")
             /\ UNCHANGED <<tmp, result>>
          \/ /\ both
             /\ fs' = Remove(fs, path)
             /\ loc' = [loc EXCEPT !.removed = TRUE]
             /\ pc' = "r_register"
             /\ Fault
             /\ UNCHANGED <<tmp, result>>
    /\ asked' = NoRead
    /\ UNCHANGED <<disk, dirs, reg, opts, ncmd, ret, batch, kept, snaps>>

\* Remove, lines 121-130: reg.Remove, then reg.Save.
RemoveRegister ==
    /\ pc = "r_register"
    /\ reg' = RegistryRemove(reg, opts.name)
    /\ \/ Fail("save") /\ UNCHANGED disk
       \/ disk' = reg' /\ Finish("ok", "")
    /\ asked' = NoRead
    /\ UNCHANGED <<fs, dirs, opts, loc, ncmd, ret, batch, kept, snaps>>

\* Forget, lines 43-48
ForgetStart(name, yes) ==
    /\ Begin([op |-> "forget", owner |-> "", name |-> name, version |-> "",
              into |-> "", yes |-> yes, cwd |-> "bin"])
    /\ \E loaded \in BOOLEAN :
         IF loaded
         THEN /\ reg' = disk
              /\ Goto("f_get")
              /\ UNCHANGED <<tmp, result>>
         ELSE /\ reg' = EmptyRegistry
              /\ Fail("load")

\* Forget, lines 50-54
ForgetGet ==
    /\ pc = "f_get"
    /\ IF Has(reg, opts.name)
       THEN /\ loc' = [loc EXCEPT !.exec = reg[opts.name]]
            /\ Goto("f_confirm")
            /\ UNCHANGED <<tmp, result>>
       ELSE Fail("not managed") /\ UNCHANGED loc
    /\ asked' = NoRead
    /\ UNCHANGED <<disk, fs, dirs, reg, opts, ncmd, ret, batch, kept, snaps>>

\* Forget, lines 56-74: the confirmation.
ForgetConfirm ==
    /\ pc = "f_confirm"
    /\ \E answer \in Answers :
         /\ asked' = (IF AsksContinue(opts.yes) THEN Read("continue", answer) ELSE NoRead)
         /\ IF AsksContinue(opts.yes) /\ ~Yes(answer)
            THEN Finish("ok", "cancelled")
            ELSE /\ Goto("f_register")
                 /\ UNCHANGED <<tmp, result>>
    /\ UNCHANGED <<disk, fs, dirs, reg, opts, loc, ncmd, ret, batch, kept, snaps>>

\* A forget that deletes the file as remove does.
ForgetRegisterAndDelete ==
    /\ pc = "f_register"
    /\ reg' = RegistryRemove(reg, opts.name)
    /\ fs' = Remove(fs, loc.exec.path)
    /\ \/ Fail("save") /\ UNCHANGED disk
       \/ disk' = reg' /\ Finish("ok", "")
    /\ asked' = NoRead
    /\ UNCHANGED <<dirs, opts, loc, ncmd, ret, batch, kept, snaps>>

\* Forget, lines 76-85: reg.Remove, then reg.Save.
ForgetRegister ==
    /\ pc = "f_register"
    /\ reg' = RegistryRemove(reg, opts.name)
    /\ \/ Fail("save") /\ UNCHANGED disk
       \/ disk' = reg' /\ Finish("ok", "")
    /\ asked' = NoRead
    /\ UNCHANGED <<fs, dirs, opts, loc, ncmd, ret, batch, kept, snaps>>

(* ------------------------------------------------------------------ *)
(* The symlink package on its own                                     *)
(* ------------------------------------------------------------------ *)

\* The paths that are inspected: a recorded path, a link's destination, both also
\* as relative paths, and a path nothing was ever installed at.
ProbePaths ==
    {Join("bin", "a"), RealAbs("a"), Join(".", "a"), RealRel("a"), Join("bin", "c")}

\* A caller is about to inspect a path from an existing working directory.
SymlinkStart(path, cwd) ==
    /\ pc = "idle"
    /\ cwd \in dirs
    /\ ncmd < MaxCmds
    /\ ncmd' = ncmd + 1
    /\ opts' = [NoOpts EXCEPT !.op = "inspect", !.cwd = cwd]
    /\ loc' = [NoLoc EXCEPT !.target = path]
    /\ Goto("s_check")
    /\ asked' = NoRead
    /\ UNCHANGED <<disk, fs, dirs, reg, tmp, result, ret, batch, kept, snaps>>

\* symlink.Check(path), lines 33-62
SymlinkCheck ==
    /\ pc = "s_check"
    /\ \/ /\ CheckCanFail(fs, opts.cwd, loc.target)
          /\ Fail("failed to check path")
          /\ UNCHANGED loc
       \/ LET info == Check(fs, opts.cwd, loc.target)
          IN /\ loc' = [loc EXCEPT !.isSymlink = info.IsSymlink,
                                   !.linkTarget = info.Target,
                                   !.effectivePath = info.Path]
             /\ Goto("s_prompt")
             /\ UNCHANGED <<tmp, result>>
    /\ asked' = NoRead
    /\ UNCHANGED <<disk, fs, dirs, reg, opts, ncmd, ret, batch, kept, snaps>>

\* symlink.PromptAction(path, target), lines 64-86: read a line, trim it, decide.
SymlinkPrompt ==
    /\ pc = "s_prompt"
    /\ \E input \in Inputs :
         /\ asked' = Read("symlink", input)
         /\ loc' = [loc EXCEPT !.action = PromptAction(Word(TrimSpace(ReadString(input))))]
    /\ Goto("s_resolve")
    /\ UNCHANGED <<disk, fs, dirs, reg, opts, tmp, result, ncmd, ret, batch, kept, snaps>>

\* symlink.ResolveTarget(info, action), lines 93-101
SymlinkResolve ==
    /\ pc = "s_resolve"
    /\ LET info == [IsSymlink |-> loc.isSymlink, Path |-> loc.target,
                    Target |-> loc.linkTarget]
       IN loc' = [loc EXCEPT !.effectivePath = ResolveTarget(info, loc.action)]
    /\ Finish("ok", "")
    /\ asked' = NoRead
    /\ UNCHANGED <<disk, fs, dirs, reg, opts, ncmd, ret, batch, kept, snaps>>

(* ------------------------------------------------------------------ *)
(* Specifications of update and of update --all                       *)
(* ------------------------------------------------------------------ *)

UpdateSteps ==
    \/ UpdateGet
    \/ UpdateInspect
    \/ UpdateFetch
    \/ UpdateDecide
    \/ UpdateFindAsset
    \/ UpdateDownload
    \/ UpdateExtract
    \/ UpdateMkdir
    \/ UpdateBackup
    \/ UpdateRemove
    \/ UpdateWrite
    \/ UpdateChmod
    \/ UpdateRegister
    \/ UpdateCleanup

InitUpdate ==
    \E S \in {{"a"}, {"a", "b"}} :
    \E cond \in [S -> Conds] :
    \E ver \in [S -> Tags] :
        /\ \A n \in S : n # "a" => cond[n] = "ok" /\ ver[n] = "v1"
        /\ InitWith(cond, ver)

UpdateBegin ==
    \E name \in {"a", "c"}, yes \in BOOLEAN, cwd \in Dirs : UpdateStart(name, yes, cwd, FALSE, FALSE)

NextUpdate ==
    \/ UpdateBegin
    \/ UpdateSteps
    \/ Return

Spec == InitUpdate /\ [][NextUpdate]_vars

InitBatch ==
    \E S \in {{}, Names} :
    \E cond \in [S -> {"ok", "missing"}] :
    \E ver \in [S -> Tags] :
        /\ \A n \in S : ver[n] = "v1" /\ cond[n] = (IF n = "b" THEN "missing" ELSE "ok")
        /\ InitWith(cond, ver)

UpdateAllBegin ==
    \E yes \in BOOLEAN : UpdateAllStart(yes, "home", FALSE, FALSE)

NextBatch ==
    \/ UpdateAllBegin
    \/ UpdateAllList
    \/ UpdateAllNext
    \/ UpdateBegin
    \/ UpdateSteps

SpecBatch == InitBatch /\ [][NextBatch]_vars

(* ------------------------------------------------------------------ *)
(* Specification of all the commands                                  *)
(* ------------------------------------------------------------------ *)

RemoveSteps ==
    \/ RemoveGet
    \/ RemoveInspect
    \/ RemoveConfirm
    \/ RemoveFile
    \/ RemoveRegister

ForgetSteps ==
    \/ ForgetGet
    \/ ForgetConfirm
    \/ ForgetRegister

RemoveBegin ==
    \E name \in {"a", "c"}, yes \in BOOLEAN, cwd \in Dirs : RemoveStart(name, yes, cwd)

ForgetBegin ==
    \E name \in {"a", "c"}, yes \in BOOLEAN : ForgetStart(name, yes)

NextAll ==
    \/ InstallBegin
    \/ InstallSteps
    \/ UpdateBegin
    \/ UpdateSteps
    \/ RemoveBegin
    \/ RemoveSteps
    \/ ForgetBegin
    \/ ForgetSteps
    \/ Return

InitAll ==
    \E S \in {{}, {"a"}} :
    \E cond \in [S -> Conds] :
    \E ver \in [S -> Tags] :
        InitWith(cond, ver)

SpecAll == InitAll /\ [][NextAll]_vars

\* remove and forget on registries of up to two names.
NextRemove ==
    \/ RemoveBegin
    \/ RemoveSteps
    \/ ForgetBegin
    \/ ForgetSteps
    \/ Return

SpecRemove == InitInstall /\ [][NextRemove]_vars

\* The symlink package and its two callers, update and remove.
NextSymlink ==
    \/ \E path \in ProbePaths, cwd \in Dirs : SymlinkStart(path, cwd)
    \/ SymlinkCheck
    \/ SymlinkPrompt
    \/ SymlinkResolve
    \/ UpdateBegin
    \/ UpdateSteps
    \/ RemoveBegin
    \/ RemoveSteps

SpecSymlink == InitAll /\ [][NextSymlink]_vars

(* ------------------------------------------------------------------ *)
(* Specification of the commands run with --yes                       *)
(* ------------------------------------------------------------------ *)

NextYes ==
    \/ \E version \in Tags \cup {""}, into \in Dirs :
         InstallStart("o1", "a", version, into, TRUE, FALSE, FALSE)
    \/ InstallSteps
    \/ \E name \in {"a", "c"}, cwd \in Dirs : UpdateStart(name, TRUE, cwd, FALSE, FALSE)
    \/ UpdateAllStart(TRUE, "home", FALSE, FALSE)
    \/ UpdateAllList
    \/ UpdateAllNext
    \/ UpdateSteps
    \/ \E name \in {"a", "c"}, cwd \in Dirs : RemoveStart(name, TRUE, cwd)
    \/ RemoveSteps
    \/ \E name \in {"a", "c"} : ForgetStart(name, TRUE)
    \/ ForgetSteps

SpecYes == (InitAll \/ InitBatch) /\ [][NextYes]_vars

(* ------------------------------------------------------------------ *)
(* Specification of installs and updates one after another            *)
(* ------------------------------------------------------------------ *)

\* With the other commands: install of the repository "a" of another owner, and
\* install --into . run from an existing working directory.
NextHistory ==
    \/ InstallBegin
    \/ \E into \in Dirs, yes \in BOOLEAN : InstallStart("o2", "a", "", into, yes, FALSE, FALSE)
    \/ /\ "home" \in dirs
       /\ \E yes \in BOOLEAN : InstallStart("o1", "a", "", ".", yes, FALSE, FALSE)
    \/ InstallSteps
    \/ UpdateBegin
    \/ UpdateSteps
    \/ Return

SpecHistory == InitAll /\ [][NextHistory]_vars

(* ------------------------------------------------------------------ *)
(* Properties of install                                              *)
(* ------------------------------------------------------------------ *)

InstallReturned == pc = "done" /\ opts.op = "install"
InstallSucceeded == InstallReturned /\ result.status = "ok" /\ result.err = ""
InstallFailed == InstallReturned /\ result.status = "err"

\* C1: after a successful install the committed record's checksum is the hash of
\* the file found at the record's path, and its version is the installed release's tag.
C1_InstallRecordMatchesFile ==
    InstallSucceeded =>
        /\ Has(disk, opts.name)
        /\ CanRead(fs, disk[opts.name].path)
        /\ disk[opts.name].checksum = Hash(ReadFile(fs, disk[opts.name].path))
        /\ disk[opts.name].version = loc.release.tag

C1_Witness ==
    /\ InstallSucceeded
    /\ opts.version # ""
    /\ Has(disk0, opts.name)
    /\ disk[opts.name] # disk0[opts.name]
    /\ ReadFile(fs, loc.target) # ReadFile(fs0, loc.target)

\* The downloaded archive's digest differs from the digest the manifest lists.
InstallMismatch ==
    /\ opts.op = "install"
    /\ loc.expected # NoDigest
    /\ Hash(loc.archive) # loc.expected

\* C2: on a digest mismatch install has failed, and the registry file, the files and
\* the directories are as they were when the command started.
C2_MismatchChangesNothing ==
    InstallMismatch =>
        /\ InstallFailed
        /\ disk = disk0
        /\ fs = fs0
        /\ dirs = dirs0

C2_Witness ==
    /\ InstallMismatch
    /\ InstallFailed
    /\ result.err = "checksum verification failed"
    /\ opts.into \notin dirs0
    /\ Has(disk0, opts.name)

\* C3: a failed install leaves the registry file unchanged and the bytes previously
\* found at the target path in place.
C3_FailedInstallChangesNothing ==
    InstallFailed =>
        /\ disk = disk0
        /\ (loc.target # NoPath /\ CanRead(fs0, loc.target)) =>
               ReadFile(fs, loc.target) = ReadFile(fs0, loc.target)

(* ------------------------------------------------------------------ *)
(* Properties of update                                               *)
(* ------------------------------------------------------------------ *)

UpdateOps == {"update", "updateAll"}

\* Inside a call of updateOne, and after it returned.
InCall == opts.op \in UpdateOps /\ pc \notin {"idle", "done", "a_list", "a_next"}
Returned == opts.op \in UpdateOps /\ pc \in {"done", "a_next"} /\ ret.name # ""
Updating == InCall \/ Returned

\* The record and the path the current call of updateOne started with.
Recorded == disk1[opts.name]
Managed == Updating /\ Has(disk1, opts.name)

\* The downloaded archive's digest differs from the digest the release's manifest lists.
UpdateMismatch ==
    /\ Updating
    /\ HasManifest(loc.release.assets)
    /\ loc.release.sums # NoDigest
    /\ loc.archive # ""
    /\ Hash(loc.archive) # loc.release.sums

\* C4: on a digest mismatch update aborts: the files and the registry file stay as
\* they were when updateOne was called, and the call returns an error.
C4_UpdateVerifiesChecksum ==
    UpdateMismatch =>
        /\ fs = fs1
        /\ disk = disk1
        /\ Returned => ret.err # ""

\* The recorded path is a symbolic link when updateOne is called.
OnLink == Managed /\ fs1[Recorded.path].kind = "link"

AfterInspect == InCall /\ pc \notin {"u_get", "u_inspect"}

\* C5: with assumeYes on a recorded path that is a link (dangling or not), updateOne
\* stops at the inspection with the symlink error (or because the inspection itself
\* failed), naming the link and its destination, and changes nothing.
C5_YesOnSymlinkFails ==
    (OnLink /\ opts.yes) =>
        /\ ~AfterInspect
        /\ fs = fs1
        /\ disk = disk1
        /\ Returned =>
             \/ ret.err = "failed to check path"
             \/ /\ ret.err = "symlink"
                /\ loc.linkTarget = fs1[Recorded.path].target

Plain(p) == p.sfx \in {"", "real"}

\* The file the link at the recorded path points to.
Pointee == LinkDest(Recorded.path, fs1[Recorded.path].target)

\* C6: interactively on a link, nothing is mutated before the decision, and then
\* only what the decision names: Cancel nothing (not updated, no error),
\* ReplaceTarget only the file the link points to, ReplaceSymlink only the link,
\* which becomes a regular file; backup copies aside.
C6_SymlinkDecisionRespected ==
    (OnLink /\ ~opts.yes) =>
        /\ (~loc.isSymlink \/ loc.action = ActionCancel) => fs = fs1 /\ disk = disk1
        /\ (Returned /\ loc.isSymlink /\ loc.action = ActionCancel) =>
               ~ret.updated /\ ret.err = ""
        /\ (loc.isSymlink /\ loc.action = ActionReplaceTarget) =>
               \A p \in AbsPaths : (Plain(p) /\ p # Pointee) => fs[p] = fs1[p]
        /\ (loc.isSymlink /\ loc.action = ActionReplaceSymlink) =>
               /\ \A p \in AbsPaths : (Plain(p) /\ p # Recorded.path) => fs[p] = fs1[p]
               /\ (Returned /\ ret.updated) => fs[Recorded.path].kind = "file"

UpdateSucceeded == Returned /\ ret.updated /\ ret.err = ""

\* C7: after a successful update the record's checksum is the hash of the bytes found
\* at the record's path and its version is the tag of the release installed.
C7_UpdateRecordMatchesFile ==
    UpdateSucceeded =>
        /\ Has(disk, opts.name)
        /\ CanRead(fs, disk[opts.name].path)
        /\ disk[opts.name].checksum = Hash(ReadFile(fs, disk[opts.name].path))
        /\ disk[opts.name].version = loc.release.tag

(* ------------------------------------------------------------------ *)
(* Properties of update --all                                         *)
(* ------------------------------------------------------------------ *)

BatchDone ==
    /\ pc = "done"
    /\ opts.op = "updateAll"
    /\ result.status = "ok"
    /\ Len(batch.names) > 0

Entries(P(_)) == Cardinality({i \in DOMAIN batch.log : P(batch.log[i])})
Errored(e) == e.err # ""
WasUpdated(e) == e.err = "" /\ e.updated
WasNotUpdated(e) == e.err = "" /\ ~e.updated

\* C8: update --all calls updateOne exactly once for every managed name, whatever
\* fails; the three counters add up to the number of names and count the calls that
\* failed, updated and did neither; when only b fails, at its download, and a and c
\* are updated, the report is 2 updated, 0 up to date, 1 failed.
C8_BatchIsolatesFailures ==
    BatchDone =>
        /\ Len(batch.log) = Cardinality(DOMAIN disk0)
        /\ {batch.log[i].name : i \in DOMAIN batch.log} = DOMAIN disk0
        /\ batch.updated + batch.upToDate + batch.failed = Cardinality(DOMAIN disk0)
        /\ batch.failed = Entries(Errored)
        /\ batch.updated = Entries(WasUpdated)
        /\ batch.upToDate = Entries(WasNotUpdated)
        /\ (\A i \in DOMAIN batch.log :
               IF batch.log[i].name = "b" THEN batch.log[i].err = "download"
               ELSE WasUpdated(batch.log[i]))
             => <<batch.updated, batch.upToDate, batch.failed>> = <<2, 0, 1>>

C8_Witness ==
    /\ BatchDone
    /\ DOMAIN disk0 = {"a", "b", "c"}
    /\ \A i \in DOMAIN batch.log :
          IF batch.log[i].name = "b" THEN batch.log[i].err = "download"
          ELSE WasUpdated(batch.log[i])
    /\ <<batch.updated, batch.upToDate, batch.failed>> = <<2, 0, 1>>
    /\ disk["a"].version = "v2" /\ disk["c"].version = "v2" /\ disk["b"] = disk0["b"]

Rank(n) == CASE n = "a" -> 1 [] n = "b" -> 2 [] OTHER -> 3

\* C9: update --all takes the names in ascending order.
C9_BatchInSortedOrder ==
    opts.op = "updateAll" =>
        \A i, j \in DOMAIN batch.names :
            i < j => Rank(batch.names[i]) < Rank(batch.names[j])

\* The names whose call of updateOne returned an error in the finished command.
FailedNames ==
    IF opts.op = "update"
    THEN (IF ret.err # "" THEN {ret.name} ELSE {})
    ELSE {batch.log[i].name : i \in {k \in DOMAIN batch.log : batch.log[k].err # ""}}

\* C10: when the command has ended, the record persisted for a name whose update
\* returned an error is the record persisted before the command.
C10_FailedUpdateDiscarded ==
    (pc = "done" /\ opts.op \in UpdateOps) =>
        \A n \in FailedNames \cap DOMAIN disk0 :
            Has(disk, n) /\ disk[n] = disk0[n]

(* ------------------------------------------------------------------ *)
(* Properties of update: failures, backups                            *)
(* ------------------------------------------------------------------ *)

\* The path updateOne's file operations act on, as the process resolves it.
Effective == Abs(opts.cwd, loc.effectivePath)
EffectiveBackup == Abs(opts.cwd, BackupPath(loc.effectivePath))

\* C11: when the old binary was removed and writing the new one fails, updateOne
\* returns an error, nothing exists at the effective path and the registry file is
\* the one updateOne started with.
C11_FailedWriteLeavesAbsent ==
    (Returned /\ ret.err = "failed to install new executable") =>
        /\ loc.removed
        /\ fs[Effective].kind = "none"
        /\ disk = disk1

\* The backup was made and the new binary is not yet registered.
BackupDone ==
    /\ InCall
    /\ loc.createBackup
    /\ pc \in {"u_remove", "u_write", "u_chmod", "u_register", "u_cleanup"}

BackupFailed == Returned /\ ret.err = "failed to create backup"

\* C12 as stated: with a backup requested, <record's path>.backup holds the bytes of
\* the current binary before the old binary is removed; a failing backup aborts the
\* update with the old binary in place and the registry unchanged.
C12_BackupAtRecordedPath ==
    /\ BackupDone =>
         /\ CanRead(fs, BackupPath(Recorded.path))
         /\ ReadFile(fs, BackupPath(Recorded.path)) = ReadFile(fs1, Recorded.path)
    /\ BackupFailed =>
         /\ disk = disk1
         /\ fs[Recorded.path] = fs1[Recorded.path]
         /\ ReadFile(fs, Recorded.path) = ReadFile(fs1, Recorded.path)

\* C12 amended: the backup is made beside the file that is replaced, at
\* <effective path>.backup, and holds that file's bytes before it is removed; a
\* failing backup aborts the update with that file in place and the registry unchanged.
C12_BackupAtEffectivePath ==
    /\ BackupDone =>
         /\ CanRead(fs, EffectiveBackup)
         /\ ReadFile(fs, EffectiveBackup) = ReadFile(fs1, Effective)
         /\ pc = "u_remove" => fs[Effective] = fs1[Effective]
    /\ BackupFailed =>
         /\ disk = disk1
         /\ fs[Effective] = fs1[Effective]
         /\ fs[Recorded.path] = fs1[Recorded.path]
         /\ ReadFile(fs, Recorded.path) = ReadFile(fs1, Recorded.path)

C12_Witness ==
    /\ BackupDone
    /\ pc = "u_remove"
    /\ loc.isSymlink
    /\ loc.action = ActionReplaceTarget
    /\ EffectiveBackup # BackupPath(Recorded.path)
    /\ ReadFile(fs, EffectiveBackup) = "bin_v1"

\* The errors of the steps that precede the replacement of the binary.
EarlyErrors ==
    {"fetch", "failed to fetch recorded version", "no matching asset", "mkdtemp",
     "download", "extract", "failed to calculate checksum",
     "failed to create target directory", "failed to create backup",
     "failed to remove old executable"}

FailedEarly == Returned /\ opts.op = "update" /\ ret.err \in EarlyErrors

\* C13 as stated: a failure before the replacement leaves files, directories and
\* registry exactly as they were.
C13_EarlyFailureChangesNothing ==
    FailedEarly => fs = fs0 /\ dirs = dirs0 /\ disk = disk0

\* C13 amended: a failure before the replacement leaves the registry, the
\* directories and every file but the requested backup copy as they were.
C13_EarlyFailureKeepsAllButBackup ==
    FailedEarly =>
        /\ disk = disk0
        /\ dirs = dirs0
        /\ \A p \in AbsPaths : (p # EffectiveBackup \/ ~loc.createBackup) => fs[p] = fs0[p]

C13_Witness ==
    /\ FailedEarly
    /\ ret.err = "failed to remove old executable"
    /\ loc.createBackup
    /\ fs[EffectiveBackup] # fs0[EffectiveBackup]
    /\ CanRead(fs, EffectiveBackup)

(* ------------------------------------------------------------------ *)
(* Properties of install: confirmation, temporary storage, manifest   *)
(* ------------------------------------------------------------------ *)

\* The release is resolved and the registry records the version asked for (or, when
\* none was asked for, the latest one) under the name.
Duplicate ==
    /\ opts.op = "install"
    /\ loc.release # NoRelease
    /\ Has(disk0, opts.name)
    /\ disk0[opts.name].version = loc.version

\* The answer the last step read to the question q, "-" when q was not put.
Answer(q) ==
    IF \E i \in DOMAIN asked : asked[i].q = q
    THEN asked[CHOOSE i \in DOMAIN asked : asked[i].q = q].a
    ELSE "-"

\* C14: a duplicate install without assumeYes enters the pipeline only on the answer
\* y or yes to the reinstall question; any other answer ends the command with
\* success and nothing changed; with assumeYes no question is put and the pipeline
\* is entered.
C14_DuplicateNeedsConfirmation ==
    /\ (Duplicate /\ ~opts.yes /\ pc = "i_asset") => Yes(Answer("reinstall"))
    /\ (Duplicate /\ ~opts.yes /\ pc = "done" /\ asked # NoRead
          /\ ~Yes(Answer("reinstall"))) =>
           /\ Answer("reinstall") # "-"
           /\ Len(asked) = 1
           /\ result = [status |-> "ok", err |-> "cancelled"]
           /\ disk = disk0 /\ fs = fs0 /\ dirs = dirs0
           /\ loc.asset = "" /\ loc.archive = ""
    /\ (Duplicate /\ opts.yes) =>
           /\ asked = NoRead
           /\ result.err # "cancelled"
           /\ pc # "i_confirm" => loc.target # NoPath

C14_Witness ==
    /\ Duplicate
    /\ ~opts.yes
    /\ opts.version = ""
    /\ pc = "done"
    /\ asked = Read("reinstall", "")
    /\ result = [status |-> "ok", err |-> "cancelled"]

\* C16: when install fails after the download the archive is still in its temporary
\* directory after the command returned; after a successful install the temporary
\* directory is gone.
C16_FailedInstallKeepsDownload ==
    /\ (InstallFailed /\ loc.archive # "") => tmp.dir /\ tmp.archive = loc.archive
    /\ InstallSucceeded => tmp = NoTmp

\* install is past its verification block.
PastVerify ==
    /\ opts.op = "install"
    /\ pc \in {"i_mkdir", "i_extract", "i_checksum", "i_register"}

\* C18: when the release has a checksum asset, install goes past the verification
\* only with the archive's digest equal to the digest the manifest lists for it.
C18_ManifestIsNeverSkipped ==
    (PastVerify /\ HasManifest(loc.release.assets)) =>
        /\ loc.verified
        /\ loc.expected # NoDigest
        /\ Hash(loc.archive) = loc.expected

(* ------------------------------------------------------------------ *)
(* Properties of update: reinstall, consistency                       *)
(* ------------------------------------------------------------------ *)

\* updateOne runs interactively on a name whose file is missing.
Reinstalling == Managed /\ ~opts.yes /\ StatNotExist(fs1, Recorded.path)

\* updateOne returned (false, nil).
Declined == Returned /\ ~ret.updated /\ ret.err = ""

\* C17: a missing file leads into the reinstall sub-flow, never to "up to date".
\* Interactively one question is put: with recorded = latest it is the yes/no
\* question and only y or yes proceeds; otherwise r or recorded proceeds with the
\* recorded version, l or latest with the latest, anything else cancels with nothing
\* changed.  After a successful reinstall the file exists at the recorded path and
\* the record has the chosen version.
C17_ReinstallSubflow ==
    /\ (Managed /\ StatNotExist(fs1, Recorded.path) /\ AfterInspect) => loc.missing
    /\ (Managed /\ StatNotExist(fs1, Recorded.path) /\ Returned) => ret.note # "uptodate"
    /\ (Reinstalling /\ pc = "u_asset") =>
           /\ Len(asked) = 1
           /\ loc.release.tag = loc.version
           /\ \/ /\ Yes(Answer("reinstall"))
                 /\ loc.version = Recorded.version
              \/ /\ Answer("choose") \in {"r", "recorded"}
                 /\ loc.version = Recorded.version
              \/ /\ Answer("choose") \in {"l", "latest"}
                 /\ loc.version # Recorded.version
    /\ (Reinstalling /\ Declined) =>
           /\ Len(asked) = 1
           /\ asked[1].q = (IF loc.version = Recorded.version THEN "reinstall" ELSE "choose")
           /\ asked[1].a \notin (IF asked[1].q = "reinstall" THEN {"y", "yes"}
                                 ELSE {"r", "recorded", "l", "latest"})
           /\ fs = fs1 /\ disk = disk1
    /\ (Managed /\ StatNotExist(fs1, Recorded.path) /\ UpdateSucceeded) =>
           /\ CanRead(fs, Recorded.path)
           /\ Has(disk, opts.name)
           /\ disk[opts.name].version = loc.version
           /\ disk[opts.name].path = Recorded.path

C17_Witness ==
    /\ Reinstalling
    /\ pc = "u_asset"
    /\ asked = Read("choose", "r")
    /\ loc.version = "v1"
    /\ fs1[Recorded.path].kind = "none"

\* The record updateOne started with matches the file at its path.
WasConsistent ==
    /\ Managed
    /\ CanRead(fs1, Recorded.path)
    /\ Recorded.checksum = Hash(ReadFile(fs1, Recorded.path))

\* C19: after an update attempt on a name whose record matched its file, the
\* persisted record's checksum is the hash of the file at its path, or no file is
\* there.
C19_RecordConsistentAfterUpdate ==
    (WasConsistent /\ Returned) =>
        /\ Has(disk, opts.name)
        /\ \/ StatNotExist(fs, disk[opts.name].path)
           \/ /\ CanRead(fs, disk[opts.name].path)
              /\ disk[opts.name].checksum = Hash(ReadFile(fs, disk[opts.name].path))

\* C15: a command started with --yes reads no answer to a prompt in any of its
\* steps: install, update of one name (reinstall of a missing file and a symlinked
\* path included), update --all, remove and forget.
C15_YesNeverPrompts == opts.yes => asked = NoRead

\* update --yes has reinstalled a missing file and has reached the cleanup of the
\* archive, the last place where updateOne can ask.
C15_Witness ==
    /\ opts.yes
    /\ opts.op \in UpdateOps
    /\ Returned
    /\ ret.updated
    /\ loc.missing
    /\ ~KeepsArchive(opts.yes, "n")
    /\ asked = NoRead

(* ------------------------------------------------------------------ *)
(* Properties of the registry file                                    *)
(* ------------------------------------------------------------------ *)

\* The command ended without an error in the step that put a question, other than
\* the one about the archive, which update puts after its work is done.
CancelledAtPrompt ==
    /\ pc = "done"
    /\ result.status = "ok"
    /\ asked # NoRead
    /\ asked[Len(asked)].q # "cleanup"

\* updateOne found the file present and the latest release equal to the record.
UpToDate ==
    /\ Managed
    /\ ~loc.missing
    /\ loc.release # NoRelease
    /\ loc.release.tag = Recorded.version

\* C20: the registry file changes only as the last step of a mutating command that
\* succeeds; an update that finds the executable up to date changes nothing and
\* reports not-updated; install, update, remove or forget cancelled at a prompt
\* leave the registry file as it was.
C20_RegistryWrittenLast ==
    /\ disk # disk0 =>
           \/ pc = "done" /\ result.status = "ok"
           \/ pc = "u_cleanup"
    /\ (disk # disk0 /\ Returned) => ret.updated /\ ret.err = ""
    /\ UpToDate => pc \in {"u_decide", "done"}
    /\ (UpToDate /\ Returned) =>
           /\ ~ret.updated /\ ret.err = ""
           /\ ret.note = "uptodate"
           /\ asked = NoRead
           /\ disk = disk0 /\ fs = fs0 /\ dirs = dirs0
    /\ CancelledAtPrompt => disk = disk0 /\ fs = fs0 /\ dirs = dirs0

C20_Witness ==
    /\ pc = "done"
    /\ opts.op = "forget"
    /\ asked = Read("continue", "n")
    /\ Has(disk, opts.name)
    /\ disk = disk0

(* ------------------------------------------------------------------ *)
(* Properties of the records                                          *)
(* ------------------------------------------------------------------ *)

\* C21: a record's source never changes while the record stays in the registry
\* file, whatever install or update does.
C21_SourceIsImmutable ==
    [][\A n \in (DOMAIN disk) \cap (DOMAIN disk') : disk'[n].source = disk[n].source]_vars

\* C22: every record in the registry file has an absolute path.
C22_RecordedPathsAreAbsolute ==
    \A n \in DOMAIN disk : disk[n].path.dir \in Dirs

\* updateOne replaced the link itself.
ReplacedSymlink == OnLink /\ loc.action = ActionReplaceSymlink

C23_WitnessTarget ==
    /\ UpdateSucceeded
    /\ OnLink
    /\ loc.action = ActionReplaceTarget
    /\ disk[opts.name].path = Recorded.path

(* ------------------------------------------------------------------ *)
(* Properties of update --all: cancelled items                        *)
(* ------------------------------------------------------------------ *)

WasCancelled(e) == e.note = "cancelled"

\* C24: in update --all an item the operator declines is the only thing unwound:
\* the call returns (false, nil) with files and registry file as they were when it
\* started, so with the records committed for earlier items; at the end of the
\* batch every name was processed, the declined names have their record and file
\* of before the command, and the names updated from a present file have a new
\* version on record.
C24_CancelUnwindsOneItem ==
    /\ (opts.op = "updateAll" /\ Returned /\ WasCancelled(ret)) =>
           /\ ~ret.updated /\ ret.err = ""
           /\ fs = fs1 /\ disk = disk1
    /\ BatchDone =>
           /\ Len(batch.log) = Len(batch.names)
           /\ \A i \in DOMAIN batch.log :
                 LET n == batch.log[i].name
                 IN /\ WasCancelled(batch.log[i]) =>
                          /\ disk[n] = disk0[n]
                          /\ fs[disk0[n].path] = fs0[disk0[n].path]
                    /\ (WasUpdated(batch.log[i]) /\ CanRead(fs0, disk0[n].path)) =>
                          disk[n].version # disk0[n].version

C24_Witness ==
    /\ BatchDone
    /\ Len(batch.log) = 3
    /\ WasUpdated(batch.log[1])
    /\ WasCancelled(batch.log[2])
    /\ WasUpdated(batch.log[3])
    /\ disk[batch.log[1].name].version = "v2"
    /\ disk[batch.log[2].name] = disk0[batch.log[2].name]
    /\ disk[batch.log[3].name].version = "v2"

(* ------------------------------------------------------------------ *)
(* Properties of the symlink package                                  *)
(* ------------------------------------------------------------------ *)

Inspecting == opts.op = "inspect"

\* The characters typed before the first end of line.
Typed(input) ==
    LET ends == {i \in 1..Len(input) : input[i] = "\n"}
        stop == IF ends = {} THEN Len(input) + 1
                ELSE CHOOSE i \in ends : \A j \in ends : i <= j
    IN SubSeq(input, 1, stop - 1)

\* The line holds the character c once and blanks around it.
Only(line, c) ==
    \E k \in 1..Len(line) :
        /\ line[k] = c
        /\ \A m \in (1..Len(line)) \ {k} : line[m] = " "

\* C25: the symlink decision is ReplaceTarget when the line typed is 1 with blanks
\* around it at most, ReplaceSymlink when it is 2, and Cancel for everything else:
\* 3, no characters, the end of the input, any other text.
C25_PromptDecision ==
    (Inspecting /\ pc = "s_resolve") =>
        LET line == Typed(asked[1].a)
        IN loc.action = CASE Only(line, "1") -> ActionReplaceTarget
                          [] Only(line, "2") -> ActionReplaceSymlink
                          [] OTHER -> ActionCancel

C25_Witness ==
    /\ Inspecting
    /\ pc = "s_resolve"
    /\ asked = Read("symlink", <<" ", "1", "\n">>)
    /\ loc.action = ActionReplaceTarget

\* update or remove has loaded the record of its name.
Mutating == opts.op \in {"update", "remove"} /\ loc.exec # NoExec

\* C26: the effective path is the link's target for ReplaceTarget and the inspected
\* path for ReplaceSymlink and Cancel, for every inspected path and decision; in
\* update and remove it is the recorded path or the target read from the link, never
\* the empty path, and no file other than a backup changes anywhere else.
C26_EffectivePath ==
    /\ (Inspecting /\ pc = "done" /\ result.status = "ok") =>
           loc.effectivePath = (IF loc.action = ActionReplaceTarget THEN loc.linkTarget
                                ELSE loc.target)
    /\ Mutating =>
           /\ loc.effectivePath # NoPath
           /\ loc.effectivePath =
                  (IF loc.isSymlink /\ loc.action = ActionReplaceTarget
                   THEN fs0[Abs(opts.cwd, loc.exec.path)].target
                   ELSE loc.exec.path)
           /\ \A p \in AbsPaths :
                 (Plain(p) /\ fs[p] # fs0[p]) =>
                     p \in {Abs(opts.cwd, loc.effectivePath), Abs(opts.cwd, loc.exec.path)}
    /\ (opts.op \in {"update", "remove"} /\ loc.exec = NoExec) => fs = fs0

C26_Witness ==
    /\ Inspecting
    /\ pc = "done"
    /\ loc.isSymlink
    /\ loc.action = ActionReplaceTarget
    /\ loc.effectivePath = RealRel("a")

\* C27: inspecting a path changes nothing and reports the path it was given; the
\* path is a symlink exactly when its own entry is a link, whatever the link points
\* to, and then the target is the destination stored in the link; a path with no
\* entry is reported as no symlink, without an error.
C27_CheckDoesNotFollow ==
    Inspecting =>
        /\ fs = fs0
        /\ (pc = "s_prompt") =>
               LET e == fs[Abs(opts.cwd, loc.target)]
               IN /\ loc.effectivePath = loc.target
                  /\ loc.isSymlink = (e.kind = "link")
                  /\ loc.linkTarget = (IF e.kind = "link" THEN e.target ELSE NoPath)
        /\ (pc = "done" /\ result.status = "err") =>
               fs[Abs(opts.cwd, loc.target)].kind # "none"

\* A dangling link was inspected.
C27_Witness ==
    /\ Inspecting
    /\ pc = "s_prompt"
    /\ fs[Abs(opts.cwd, loc.target)].kind = "link"
    /\ StatNotExist(fs, Abs(opts.cwd, loc.target))
    /\ loc.isSymlink
    /\ loc.linkTarget = RealAbs("a")

\* A path with no entry was inspected.
C27_WitnessNone ==
    /\ Inspecting
    /\ pc = "s_prompt"
    /\ fs[Abs(opts.cwd, loc.target)].kind = "none"
    /\ ~loc.isSymlink

(* ------------------------------------------------------------------ *)
(* Properties of remove and forget                                    *)
(* ------------------------------------------------------------------ *)

Removing == opts.op = "remove"
RemoveReturned == Removing /\ pc = "done"
RemoveSucceeded == RemoveReturned /\ result.status = "ok" /\ result.err = ""
RemoveFailed == RemoveReturned /\ result.status = "err"

\* C28: after a successful remove the name is not in the registry file, the other
\* records are as before and nothing is found at the effective path; a file that
\* was missing does not stop the remove; an unmanaged name and a deletion error
\* end the command with an error and the registry file unchanged, and a deletion
\* error arises only for a file that is there.
C28_RemoveDeletesFileAndRecord ==
    /\ RemoveSucceeded =>
           /\ Has(disk0, opts.name)
           /\ disk = RegistryRemove(disk0, opts.name)
           /\ fs[Abs(opts.cwd, loc.effectivePath)].kind = "none"
    /\ RemoveFailed => disk = disk0
    /\ (RemoveReturned /\ ~Has(disk0, opts.name)) =>
           /\ RemoveFailed
           /\ result.err \in {"not managed", "load"}
           /\ fs = fs0
    /\ (RemoveReturned /\ result.err = "failed to remove executable") =>
           /\ fs = fs0
           /\ fs0[Abs(opts.cwd, loc.effectivePath)].kind # "none"
    /\ (Removing /\ pc = "r_register") =>
           fs[Abs(opts.cwd, loc.effectivePath)].kind = "none"

\* A remove of a, whose file was already missing, with b managed too.
C28_Witness ==
    /\ RemoveSucceeded
    /\ Has(disk0, opts.name)
    /\ DOMAIN disk = {"b"}
    /\ disk["b"] = disk0["b"]
    /\ fs0[Abs(opts.cwd, loc.exec.path)].kind = "none"
    /\ loc.effectivePath = loc.exec.path

\* The recorded path was a link when remove started.
RemovingLink ==
    /\ Removing
    /\ Has(disk0, opts.name)
    /\ fs0[disk0[opts.name].path].kind = "link"

\* The file the link at the recorded path pointed to when remove started.
RemovedPointee ==
    LinkDest(disk0[opts.name].path, fs0[disk0[opts.name].path].target)

\* C29: remove on a link at the recorded path.  With --yes it fails, files and
\* registry file unchanged.  Interactively, Cancel changes nothing; ReplaceSymlink
\* deletes the link and nothing else; ReplaceTarget deletes the file the link points
\* to and the link; after a successful remove no link is left at the recorded path.
C29_RemoveOnSymlink ==
    RemovingLink =>
        /\ (opts.yes /\ RemoveReturned) =>
               RemoveFailed /\ fs = fs0 /\ disk = disk0
        /\ (loc.isSymlink /\ loc.action = ActionCancel) => fs = fs0 /\ disk = disk0
        /\ (RemoveSucceeded /\ loc.action = ActionReplaceSymlink) =>
               fs = Remove(fs0, disk0[opts.name].path)
        /\ (RemoveSucceeded /\ loc.action = ActionReplaceTarget) =>
               fs = Remove(Remove(fs0, RemovedPointee), disk0[opts.name].path)
        /\ RemoveSucceeded => fs[disk0[opts.name].path].kind = "none"

Forgetting == opts.op = "forget"
ForgetReturned == Forgetting /\ pc = "done"
ForgetSucceeded == ForgetReturned /\ result.status = "ok" /\ result.err = ""

\* C30: forget changes no file and no directory; it goes on to the registry only
\* with --yes or after the answer y or yes; when it succeeds the registry file is
\* as before without the named record; after any other answer, for an unmanaged
\* name and after a failure the registry file is unchanged.
C30_ForgetTouchesOnlyRegistry ==
    Forgetting =>
        /\ fs = fs0 /\ dirs = dirs0
        /\ (pc = "f_register") =>
               IF opts.yes THEN asked = NoRead
               ELSE Len(asked) = 1 /\ Yes(Answer("continue"))
        /\ ForgetSucceeded =>
               /\ Has(disk0, opts.name)
               /\ disk = RegistryRemove(disk0, opts.name)
        /\ (ForgetReturned /\ ~ForgetSucceeded) => disk = disk0
        /\ (ForgetReturned /\ asked # NoRead /\ ~Yes(Answer("continue"))) =>
               result = [status |-> "ok", err |-> "cancelled"]
        /\ (ForgetReturned /\ ~Has(disk0, opts.name)) =>
               result.status = "err"

\* a was forgotten; b's record and a's file are still there.
C30_Witness ==
    /\ ForgetSucceeded
    /\ ~opts.yes
    /\ opts.name = "a"
    /\ DOMAIN disk = {"b"}
    /\ disk["b"] = disk0["b"]
    /\ fs[disk0["a"].path].kind = "file"

(* ------------------------------------------------------------------ *)
(* check                                                              *)
(* ------------------------------------------------------------------ *)

\* sort.Strings on names that differ from one another.
SortStrings(names) ==
    LET rank(n) == CASE n = "a" -> 1 [] n = "b" -> 2 [] OTHER -> 3
    IN CHOOSE t \in [DOMAIN names -> {names[i] : i \in DOMAIN names}] :
         /\ \A i \in DOMAIN names : \E j \in DOMAIN t : t[j] = names[i]
         /\ \A i, j \in DOMAIN t : i < j => rank(t[i]) < rank(t[j])

\* A status that is taken without looking at the file.
FileStatusUnchecked(f, cwd, exec, verify, opened) == "ok"

\* runCheck, lines 124-136: the status of the file at the recorded path. opened tells
\* whether archive.CalculateChecksum could read the file.
FileStatus(f, cwd, exec, verify, opened) ==
    IF StatNotExist(f, Abs(cwd, exec.path)) THEN "missing"
    ELSE IF verify /\ opened /\ Hash(ReadFile(f, Abs(cwd, exec.path))) # exec.checksum
    THEN "modified"
    ELSE "ok"

NoOutput == [names |-> <<>>, i |-> 0, statuses |-> <<>>, printed |-> <<>>,
             updatesAvailable |-> 0, upToDateCount |-> 0,
             missingCount |-> 0, modifiedCount |-> 0]

\* runCheck, lines 63-78: the registry, the configuration, the prerelease setting.
CheckStart(name, json, option, config, verify, cwd) ==
    /\ cwd \in dirs
    /\ Begin([op |-> "check", owner |-> "", name |-> name, version |-> "",
              into |-> "", yes |-> FALSE, cwd |-> cwd, json |-> json,
              option |-> option, config |-> config, verify |-> verify,
              includePrereleases |-> IncludePrereleases(option, config)])
    /\ \E loaded \in {"ok", "load", "config"} :
         IF loaded = "ok"
         THEN /\ reg' = disk
              /\ Goto("c_list")
              /\ UNCHANGED <<tmp, result>>
         ELSE /\ reg' = EmptyRegistry
              /\ Fail(loaded)

\* runCheck, lines 80-116: the names to check, sorted.
CheckList ==
    /\ pc = "c_list"
    /\ IF opts.name # ""
       THEN IF ~Has(reg, opts.name)
            THEN Fail("not managed") /\ UNCHANGED batch
            ELSE /\ batch' = [NoOutput EXCEPT !.names = <<opts.name>>, !.i = 1]
                 /\ Goto("c_next")
                 /\ UNCHANGED <<tmp, result>>
       ELSE \E names \in Lists(reg) :
              IF Len(names) = 0
              THEN Finish("ok", "") /\ batch' = NoOutput
              ELSE /\ batch' = [NoOutput EXCEPT !.names = SortStrings(names), !.i = 1]
                   /\ Goto("c_next")
                   /\ UNCHANGED <<tmp, result>>
    /\ UNCHANGED <<disk, fs, dirs, reg, opts, loc, ret, kept, ncmd, snaps>>
    /\ asked' = NoRead

\* runCheck, lines 118-245: one turn of the loop, or the output after the last one.
CheckNext ==
    /\ pc = "c_next"
    /\ IF batch.i > Len(batch.names)
       THEN Finish("ok", "") /\ UNCHANGED <<batch, loc>>
       ELSE
         LET n == batch.names[batch.i]
             exec == reg[n]
         IN \E opened \in BOOLEAN, stable \in Tags, pre \in Tags \cup {""},
               found \in BOOLEAN :
              LET fileStatus == FileStatus(fs, opts.cwd, exec, opts.verify, opened)
                  sums == ~StatNotExist(fs, Abs(opts.cwd, exec.path)) /\ opts.verify
                  looks == fileStatus = "ok"
                  latestVersion == GetLatestRelease(stable, pre, opts.includePrereleases)
                  updateAvailable == exec.version # latestVersion
              IN /\ pre # stable
                 /\ sums \/ opened
                 /\ ~looks => found
                 /\ ~found => stable = "v1" /\ pre = ""
                 /\ pc' = "c_next"
                 /\ UNCHANGED <<tmp, result>>
                 /\ faults' = faults + (IF sums /\ ~opened THEN 1 ELSE 0)
                                     + (IF ~found THEN 1 ELSE 0)
                 /\ faults' <= MaxFaults
                 /\ loc' = [exec |-> exec, fileStatus |-> fileStatus, opened |-> opened,
                            looked |-> looks, found |-> found,
                            stable |-> stable, pre |-> pre]
                 /\ batch' =
                      IF ~looks
                      THEN [batch EXCEPT
                              !.i = @ + 1,
                              !.missingCount =
                                  IF fileStatus = "missing" THEN @ + 1 ELSE @,
                              !.modifiedCount =
                                  IF fileStatus = "modified" THEN @ + 1 ELSE @,
                              !.statuses = Append(@,
                                  [name |-> n, current_version |-> exec.version,
                                   latest_version |-> "", update_available |-> FALSE,
                                   status |-> fileStatus])]
                      ELSE IF ~found
                      THEN [batch EXCEPT
                              !.i = @ + 1,
                              !.printed = IF opts.json THEN @ ELSE Append(@, n)]
                      ELSE [batch EXCEPT
                              !.i = @ + 1,
                              !.updatesAvailable = IF updateAvailable THEN @ + 1 ELSE @,
                              !.upToDateCount = IF updateAvailable THEN @ ELSE @ + 1,
                              !.statuses = Append(@,
                                  [name |-> n, current_version |-> exec.version,
                                   latest_version |-> latestVersion,
                                   update_available |-> updateAvailable,
                                   status |-> "ok"])]
    /\ UNCHANGED <<disk, fs, dirs, reg, opts, ret, kept, ncmd, snaps>>
    /\ asked' = NoRead

NextCheck ==
    \/ \E name \in {"", "b", "c"}, json, option, config, verify \in BOOLEAN :
         CheckStart(name, json, option, config, verify, "bin")
    \/ CheckList
    \/ CheckNext

SpecCheck ==
    /\ \E S \in {{}, {"a", "b"}} :
       \E cond \in [S -> {"ok", "modified", "missing"}] :
       \E ver \in [S -> Tags] :
           /\ \A n \in S : n = "b" => ver[n] = "v1"
           /\ InitWith(cond, ver)
    /\ [][NextCheck]_vars

(* ------------------------------------------------------------------ *)
(* Claims about check                                                 *)
(* ------------------------------------------------------------------ *)

Checking == opts.op = "check" /\ pc \in {"c_next", "done"} /\ result.status # "err"

\* The names check has been through, and the entries it lists for a name.
Checked == {batch.names[k] : k \in 1..(batch.i - 1)}
Listed(n) == {k \in DOMAIN batch.statuses : batch.statuses[k].name = n}

\* The status the file of name n has: missing when no file exists at the recorded
\* path, modified when one exists, verification was asked for and its hash differs
\* from the recorded checksum, ok otherwise.
StatusOf(n) ==
    IF StatNotExist(fs0, Abs(opts.cwd, disk0[n].path)) THEN "missing"
    ELSE IF opts.verify
            /\ Hash(ReadFile(fs0, Abs(opts.cwd, disk0[n].path))) # disk0[n].checksum
    THEN "modified"
    ELSE "ok"

\* C31: check changes neither files nor registry file; every name it lists has one
\* entry, whose status is missing, modified or ok as the file is; a name whose file
\* is missing or modified is listed without a release lookup, update_available false.
C31_CheckClassifies ==
    Checking =>
        /\ fs = fs0 /\ disk = disk0 /\ dirs = dirs0
        /\ \A n \in Checked :
             /\ Cardinality(Listed(n)) <= 1
             /\ StatusOf(n) # "ok" => Listed(n) # {}
             /\ \A k \in Listed(n) :
                  /\ batch.statuses[k].status = StatusOf(n)
                  /\ StatusOf(n) # "ok" =>
                       /\ ~batch.statuses[k].update_available
                       /\ batch.statuses[k].latest_version = ""
        /\ (pc = "c_next" /\ loc # NoLoc /\ StatusOf(loc.exec.path.base) # "ok")
               => ~loc.looked

(* ------------------------------------------------------------------ *)
(* Claims about check and update together                             *)
(* ------------------------------------------------------------------ *)

\* What check would report for the file the current call of updateOne started with.
ReportedMissing == Managed /\ StatNotExist(fs1, Abs(opts.cwd, Recorded.path))
ReportedModified ==
    /\ Managed
    /\ ~StatNotExist(fs1, Abs(opts.cwd, Recorded.path))
    /\ Hash(ReadFile(fs1, Abs(opts.cwd, Recorded.path))) # Recorded.checksum

\* The file at the record's path exists and hashes to the record's checksum.
Intact ==
    /\ Has(disk, opts.name)
    /\ CanRead(fs, Abs(opts.cwd, disk[opts.name].path))
    /\ Hash(ReadFile(fs, Abs(opts.cwd, disk[opts.name].path))) = disk[opts.name].checksum

\* C32: an update of a name that check reports as missing or modified, which returns
\* without error and was not declined at a prompt, leaves the file in place with the
\* recorded checksum, also when the recorded version is the latest release.
C32_UpdateReinstalls ==
    (Returned /\ (ReportedMissing \/ ReportedModified)
              /\ ret.err = "" /\ ret.note # "cancelled") => Intact

(* ------------------------------------------------------------------ *)
(* Asset selection                                                    *)
(* ------------------------------------------------------------------ *)

MaxAssets == 2

\* A selection step that takes the first asset of the first template matching at all.
SelectAssetFirstMatch ==
    /\ pc = "i_asset"
    /\ LET found == FindAssetFirstMatch(loc.release.assets, opts.os, opts.arch)
       IN IF found.ok
          THEN /\ loc' = [loc EXCEPT !.asset = found.name]
               /\ asked' = NoRead
               /\ Goto("i_download")
               /\ UNCHANGED <<tmp, result>>
          ELSE /\ asked' = <<[q |-> "Available assets:", a |-> loc.release.assets]>>
               /\ Fail("no matching asset")
               /\ UNCHANGED loc
    /\ UNCHANGED <<disk, fs, dirs, reg, opts, ncmd, ret, batch, kept, snaps>>

\* install.Run, lines 108-118, on the platform the program was built for: the
\* selection, and on failure the list of the release's assets that is printed.
SelectAsset ==
    /\ pc = "i_asset"
    /\ LET found == FindAsset(loc.release.assets, opts.os, opts.arch)
       IN IF found.ok
          THEN /\ loc' = [loc EXCEPT !.asset = found.name]
               /\ asked' = NoRead
               /\ Goto("i_download")
               /\ UNCHANGED <<tmp, result>>
          ELSE /\ asked' = <<[q |-> "Available assets:", a |-> loc.release.assets]>>
               /\ Fail("no matching asset")
               /\ UNCHANGED loc
    /\ UNCHANGED <<disk, fs, dirs, reg, opts, ncmd, ret, batch, kept, snaps>>

\* An install on the platform os/arch that has fetched a release and is about to
\* select the asset (install.go line 108).
SpecAssets ==
    /\ (\E os \in {"linux", "darwin", "windows"}, arch \in {"amd64", "arm64"} :
       \E n \in 1..MaxAssets :
       \E assets \in [1..n -> {"app_v1_linux_amd64.tar.gz", "tool_v1_linux_amd64.tar.gz",
                               "app_v1_darwin_amd64.tar.gz", "app_v1_windows_amd64.zip",
                               "app_v1_linux_amd64.zip", "app-v1-linux-amd64.tar.gz",
                               "app_linux_amd64.tar.gz", "app-linux-arm64.tar.gz",
                               "checksums.txt"}] :
           /\ disk = EmptyRegistry
           /\ fs = [p \in AbsPaths |-> NoEnt]
           /\ dirs = {"bin"}
           /\ reg = EmptyRegistry
           /\ opts = [op |-> "install", owner |-> "o1", name |-> "a", version |-> "",
                      into |-> "bin", yes |-> TRUE, cwd |-> "bin",
                      os |-> os, arch |-> arch]
           /\ pc = "i_asset"
           /\ loc = [NoLoc EXCEPT !.release = [tag |-> "v1", assets |-> assets,
                                               sums |-> NoDigest, prerelease |-> FALSE],
                                  !.version = "v1",
                                  !.target = Join("bin", "a")]
           /\ tmp = NoTmp
           /\ result = NoResult
           /\ ret = NoRet
           /\ batch = NoBatch
           /\ kept = NoKept
           /\ ncmd = 1
           /\ faults = 0
           /\ asked = NoRead
           /\ disk0 = disk
           /\ fs0 = fs
           /\ dirs0 = dirs
           /\ disk1 = disk
           /\ fs1 = fs)
    /\ [][SelectAsset]_vars

\* The assets of the release that template t matches on the platform.
Matching(t) ==
    {i \in DOMAIN loc.release.assets :
        AssetParts(loc.release.assets[i]) =
            [template |-> t, os |-> opts.os, arch |-> opts.arch,
             ext |-> IF opts.os = "windows" THEN "zip" ELSE "tar.gz"]}

Selected == pc = "i_download" /\ loc.asset # ""
NotSelected == pc = "done" /\ result.err = "no matching asset"

\* C33: the asset selected is the only asset its template matches for the platform,
\* and no earlier template matches exactly one; a template that several assets match
\* never gives the asset; when no template matches exactly one asset the install ends
\* with the no-matching-asset error, the names of all the assets listed, nothing
\* downloaded and nothing written.
C33_FirstUniqueTemplateWins ==
    /\ pc # "i_asset" => Selected \/ NotSelected
    /\ Selected =>
         \E t \in 1..4 :
            /\ Cardinality(Matching(t)) = 1
            /\ \A i \in Matching(t) : loc.release.assets[i] = loc.asset
            /\ \A u \in 1..(t - 1) : Cardinality(Matching(u)) # 1
    /\ NotSelected =>
         /\ \A t \in 1..4 : Cardinality(Matching(t)) # 1
         /\ asked = <<[q |-> "Available assets:", a |-> loc.release.assets]>>
         /\ tmp = NoTmp /\ loc.archive = "" /\ fs = fs0 /\ dirs = dirs0 /\ disk = disk0

\* The example: of a linux and a darwin asset, linux/amd64 gets the first.
C33_Witness ==
    /\ Selected
    /\ opts.os = "linux" /\ opts.arch = "amd64"
    /\ loc.release.assets = <<"app_v1_linux_amd64.tar.gz", "app_v1_darwin_amd64.tar.gz">>
    /\ loc.asset = "app_v1_linux_amd64.tar.gz"

\* The example: of a linux and a darwin asset, windows/amd64 gets an error and both names.
C33_WitnessNone ==
    /\ NotSelected
    /\ opts.os = "windows" /\ opts.arch = "amd64"
    /\ loc.release.assets = <<"app_v1_linux_amd64.tar.gz", "app_v1_darwin_amd64.tar.gz">>
    /\ asked[1].a = loc.release.assets

\* A template that two assets match is passed over for a later one.
C33_WitnessAmbiguous ==
    /\ NotSelected
    /\ opts.os = "linux" /\ opts.arch = "amd64"
    /\ loc.release.assets = <<"app_v1_linux_amd64.tar.gz", "tool_v1_linux_amd64.tar.gz">>

(* ------------------------------------------------------------------ *)
(* The registry file                                                  *)
(* ------------------------------------------------------------------ *)

\* The registry file that does not exist.
NoFile == [schema_version |-> 0, executables |-> <<>>]

\* A Save that writes the first record only.
SaveFirst(r) ==
    LET rank(n) == CASE n = "a" -> 1 [] n = "b" -> 2 [] OTHER -> 3
        names == CHOOSE s \in Lists(r) :
                    \A i, j \in DOMAIN s : i < j => rank(s[i]) < rank(s[j])
    IN [schema_version |-> 1,
        executables |->
           [i \in 1..(IF DOMAIN r = {} THEN 0 ELSE 1) |->
               <<names[i], <<r[names[i]].source, r[names[i]].version, r[names[i]].path,
                             r[names[i]].platform, r[names[i]].checksum>>>>]]

\* Registry.Save: the document {schema_version, executables: {name: {source, version,
\* path, platform, checksum}}}, written as a whole, the names in ascending order as
\* the JSON encoder writes the keys of a map.
Save(r) ==
    LET rank(n) == CASE n = "a" -> 1 [] n = "b" -> 2 [] OTHER -> 3
        names == CHOOSE s \in Lists(r) :
                    \A i, j \in DOMAIN s : i < j => rank(s[i]) < rank(s[j])
    IN [schema_version |-> 1,
        executables |->
           [i \in 1..Cardinality(DOMAIN r) |->
               <<names[i], <<r[names[i]].source, r[names[i]].version, r[names[i]].path,
                             r[names[i]].platform, r[names[i]].checksum>>>>]]

\* Registry.Load: the registry a document holds; an empty one when there is no file.
Load(doc) ==
    IF doc = NoFile
    THEN [err |-> "", reg |-> EmptyRegistry]
    ELSE [err |-> "",
          reg |-> [n \in {doc.executables[i][1] : i \in DOMAIN doc.executables} |->
                     LET e == (CHOOSE i \in DOMAIN doc.executables :
                                  doc.executables[i][1] = n)
                         f == doc.executables[e][2]
                     IN [source |-> f[1], version |-> f[2], path |-> f[3],
                         platform |-> f[4], checksum |-> f[5]]]]

\* init.Run, lines 63-73: registry.Load, then reg.Save.
RegistryCreate ==
    /\ reg' = Load(disk).reg
    /\ disk' = Save(reg')
    /\ opts' = [NoOpts EXCEPT !.op = "init"]
    /\ UNCHANGED <<fs, dirs, pc, loc, tmp, result, ret, batch, kept, ncmd, faults,
                   asked, disk0, fs0, dirs0, disk1, fs1>>

\* A mutating command whose save writes the first record only.
RegistryChangeFirst ==
    /\ \/ \E n \in Names, v \in Tags, d \in Dirs :
            /\ reg' = Add(Load(disk).reg, n,
                          Executable(ToURL("o1", n), v, Join(d, n), Hash(Bin(v))))
            /\ opts' = [NoOpts EXCEPT !.op = "install", !.name = n]
       \/ \E n \in DOMAIN Load(disk).reg :
            /\ reg' = RegistryRemove(Load(disk).reg, n)
            /\ opts' = [NoOpts EXCEPT !.op = "forget", !.name = n]
    /\ disk' = SaveFirst(reg')
    /\ UNCHANGED <<fs, dirs, pc, loc, tmp, result, ret, batch, kept, ncmd, faults,
                   asked, disk0, fs0, dirs0, disk1, fs1>>

\* What a mutating command does with the registry: registry.Load, then reg.Add
\* (install.go 29 and 184-195) or reg.Remove (forget.go 77-80), then reg.Save.
RegistryChange ==
    /\ \/ \E n \in Names, v \in Tags, d \in Dirs :
            /\ reg' = Add(Load(disk).reg, n,
                          Executable(ToURL("o1", n), v, Join(d, n), Hash(Bin(v))))
            /\ opts' = [NoOpts EXCEPT !.op = "install", !.name = n]
       \/ \E n \in DOMAIN Load(disk).reg :
            /\ reg' = RegistryRemove(Load(disk).reg, n)
            /\ opts' = [NoOpts EXCEPT !.op = "forget", !.name = n]
    /\ disk' = Save(reg')
    /\ UNCHANGED <<fs, dirs, pc, loc, tmp, result, ret, batch, kept, ncmd, faults,
                   asked, disk0, fs0, dirs0, disk1, fs1>>

\* At first there is no registry file; in this specification disk holds the file as
\* Save writes it.
SpecRegistry ==
    /\ disk = NoFile
    /\ fs = [p \in AbsPaths |-> NoEnt]
    /\ dirs = {"bin"}
    /\ reg = EmptyRegistry
    /\ opts = NoOpts
    /\ pc = "idle"
    /\ loc = NoLoc
    /\ tmp = NoTmp
    /\ result = NoResult
    /\ ret = NoRet
    /\ batch = NoBatch
    /\ kept = NoKept
    /\ ncmd = 0
    /\ faults = 0
    /\ asked = NoRead
    /\ disk0 = disk
    /\ fs0 = fs
    /\ dirs0 = dirs
    /\ disk1 = disk
    /\ fs1 = fs
    /\ [][RegistryCreate \/ RegistryChange]_vars

C34_WitnessNoFile ==
    /\ disk = NoFile
    /\ Load(disk) = [err |-> "", reg |-> EmptyRegistry]

(* ------------------------------------------------------------------ *)
(* Two invocations at once                                            *)
(* ------------------------------------------------------------------ *)

\* Another invocation that reads the registry file again just before it saves.
OtherSavesReloaded ==
    /\ pc # "idle"
    /\ fs[Join("bin", "c")].kind = "none"
    /\ fs' = [fs EXCEPT ![Join("bin", "c")] = File(Bin("v1"))]
    /\ disk' = Add(disk, "c", Executable(ToURL("o1", "c"), "v1", Join("bin", "c"),
                                         Hash(Bin("v1"))))
    /\ UNCHANGED <<dirs, reg, opts, pc, loc, tmp, result, ret, batch, kept, ncmd,
                   faults, asked, snaps>>

\* Another invocation, an install of c into bin, that loaded the registry when this
\* one did (install.go 27-32), has put its file in place and now saves the registry
\* it loaded with its record added (181-195). Nothing makes it wait or load again.
OtherSaves ==
    /\ pc # "idle"
    /\ fs[Join("bin", "c")].kind = "none"
    /\ fs' = [fs EXCEPT ![Join("bin", "c")] = File(Bin("v1"))]
    /\ disk' = Add(disk0, "c", Executable(ToURL("o1", "c"), "v1", Join("bin", "c"),
                                          Hash(Bin("v1"))))
    /\ UNCHANGED <<dirs, reg, opts, pc, loc, tmp, result, ret, batch, kept, ncmd,
                   faults, asked, snaps>>

SpecRace ==
    InitInstall /\ [][InstallStart("o1", "a", "", "bin", TRUE, FALSE, FALSE) \/ InstallSteps
                      \/ OtherSaves]_vars

\* Both invocations have saved: this install committed its record, the other its own.
OtherSaved == fs[Join("bin", "c")].kind = "file"
BothSaved == InstallSucceeded /\ reg # disk0 /\ OtherSaved

\* C35: when two invocations that change different names have both loaded the
\* registry before either saved, the registry file in the end is what the one that
\* saved last wrote: the registry both loaded with that one record added, the other
\* record not in it.
C35_LastSaverWins ==
    BothSaved =>
        \/ disk = reg /\ ~Has(disk, "c")
        \/ /\ disk = Add(disk0, "c", disk["c"])
           /\ Has(disk, "a") => Has(disk0, "a") /\ disk["a"] = disk0["a"]

\* The other invocation's record is missing although its file is on disk.
C35_Witness ==
    /\ BothSaved
    /\ ~Has(disk, "c")
    /\ Has(disk, "a")
    /\ fs[Join("bin", "c")] = File(Bin("v1"))

\* This invocation's record is missing although its file is on disk.
C35_WitnessOurs ==
    /\ BothSaved
    /\ ~Has(disk0, "a")
    /\ ~Has(disk, "a")
    /\ Has(disk, "c")
    /\ fs[Join("bin", "a")].kind = "file"

(* ------------------------------------------------------------------ *)
(* The target an inspection reports                                   *)
(* ------------------------------------------------------------------ *)

\* After symlink.Check found a link at the inspected path.
InspectedLink == Inspecting /\ pc \in {"s_prompt", "s_resolve"} /\ loc.isSymlink

\* C36: the target an inspection reports for a link is the resolved path of the file
\* the link points to, so that the file a process reaches by the reported target is
\* the file it reaches through the link, also for a relative stored destination.
C36_TargetIsResolved ==
    InspectedLink =>
        /\ loc.linkTarget = LinkDest(Abs(opts.cwd, loc.target),
                                     fs[Abs(opts.cwd, loc.target)].target)
        /\ Final(fs, Abs(opts.cwd, loc.linkTarget)) = Final(fs, Abs(opts.cwd, loc.target))

(* ------------------------------------------------------------------ *)
(* The JSON output of check                                           *)
(* ------------------------------------------------------------------ *)

JsonOutput == Checking /\ pc = "done" /\ opts.json /\ result.status = "ok"

Count(P(_)) == Cardinality({k \in DOMAIN batch.statuses : P(batch.statuses[k])})
HasUpdate(e) == e.update_available
IsMissing(e) == e.status = "missing"
IsModified(e) == e.status = "modified"

\* C37: in the JSON output of check every name checked is listed once, the entries in
\* ascending order of name; a name whose check met an error has an entry or a report
\* of the error; updates_available, missing and modified count the entries with
\* update_available true, with status missing and with status modified.
C37_JsonListsEveryName ==
    JsonOutput =>
        /\ \A k \in DOMAIN batch.names :
             \/ Cardinality(Listed(batch.names[k])) = 1
             \/ /\ Listed(batch.names[k]) = {}
                /\ \E j \in DOMAIN batch.printed : batch.printed[j] = batch.names[k]
        /\ \A i, j \in DOMAIN batch.statuses :
             i < j => Rank(batch.statuses[i].name) < Rank(batch.statuses[j].name)
        /\ batch.updatesAvailable = Count(HasUpdate)
        /\ batch.missingCount = Count(IsMissing)
        /\ batch.modifiedCount = Count(IsModified)

(* ------------------------------------------------------------------ *)
(* check against update                                               *)
(* ------------------------------------------------------------------ *)

\* check has just been through an item: its name, its record, and what the release
\* lookup gives with the effective prerelease setting.
Item == batch.names[batch.i - 1]
AfterItem == Checking /\ batch.i > 1 /\ loc # NoLoc /\ loc.found
Latest == GetLatestRelease(loc.stable, loc.pre, opts.includePrereleases)
FileExists == ~StatNotExist(fs, Abs(opts.cwd, reg[Item].path))

\* What check reports for the item.
ReportsUpdate == \E k \in Listed(Item) : batch.statuses[k].update_available
ReportsStatus(s) == \E k \in Listed(Item) : batch.statuses[k].status = s

\* What update --yes does with the same registry, files and release data: the
\* reinstall sub-flow when os.Stat finds no file, and otherwise, the file not being
\* a link, the replacement of the binary when it decides to proceed.
Reinstalls == ExecutableMissing(fs, opts.cwd, reg[Item].path)
Replaces ==
    /\ ~Reinstalls
    /\ ~Check(fs, opts.cwd, reg[Item].path).IsSymlink
    /\ Decide(FALSE, TRUE, reg[Item].version, Latest, "") = "proceed"

\* C38, as stated: for an item whose file exists and is no link, check reports
\* update_available exactly when update --yes would replace the binary, and it
\* reports missing exactly when update would take the reinstall sub-flow.
C38_CheckAgreesWithUpdate ==
    AfterItem =>
        /\ FileExists => (ReportsUpdate <=> Replaces)
        /\ ReportsStatus("missing") <=> Reinstalls

\* C38, amended: the same, for an item that check reports with status ok.
C38_CheckAgreesWhenOk ==
    AfterItem =>
        /\ (FileExists /\ ReportsStatus("ok")) => (ReportsUpdate <=> Replaces)
        /\ ReportsStatus("modified") => ~ReportsUpdate
        /\ ReportsStatus("missing") <=> Reinstalls

\* An item with its file in place for which check reports an update that update
\* would install, the release being a prerelease taken because of the option.
C38_Witness ==
    /\ AfterItem
    /\ FileExists
    /\ ReportsStatus("ok")
    /\ ReportsUpdate
    /\ Replaces
    /\ Latest = loc.pre

\* An item that check reports as missing and update would reinstall.
C38_WitnessMissing ==
    /\ AfterItem
    /\ ReportsStatus("missing")
    /\ Reinstalls

(* ------------------------------------------------------------------ *)
(* What update returns                                                *)
(* ------------------------------------------------------------------ *)

\* update --all has been through its names; update of one name has returned.
AllReturned == opts.op = "updateAll" /\ pc = "done" /\ Len(batch.names) > 0
OneReturned == opts.op = "update" /\ pc = "done" /\ ret.name # ""

\* C39: update --all returns success whatever its items returned; an item cancelled
\* at a prompt is in the count of those already up to date; update of one name
\* returns the error of its item.
C39_BatchReturnsSuccess ==
    /\ AllReturned =>
         /\ result = [status |-> "ok", err |-> ""]
         /\ batch.failed = Entries(Errored)
         /\ batch.upToDate = Entries(WasNotUpdated)
         /\ \A k \in DOMAIN batch.log :
              WasCancelled(batch.log[k]) => WasNotUpdated(batch.log[k])
    /\ OneReturned =>
         /\ result.err = ret.err
         /\ result.status = (IF ret.err = "" THEN "ok" ELSE "err")

\* A batch that returns success with an item that failed and an item that was cancelled.
C39_Witness ==
    /\ AllReturned
    /\ result.status = "ok"
    /\ batch.failed > 0
    /\ \E k \in DOMAIN batch.log : WasCancelled(batch.log[k])
    /\ batch.upToDate > 0

\* An update of one name that returns its item's error.
C39_WitnessOne ==
    /\ OneReturned
    /\ ret.err = "download"
    /\ result = [status |-> "err", err |-> "download"]

(* ------------------------------------------------------------------ *)
(* Prereleases                                                        *)
(* ------------------------------------------------------------------ *)

\* The latest version check lists for the item it has just looked up.
ListedLatest(v) == \E k \in Listed(Item) : batch.statuses[k].latest_version = v

\* install, update and check, each with the option and the configured value free.
SpecPrereleases ==
    /\ InitAll
    /\ [][\/ \E option, config \in BOOLEAN :
                InstallStart("o1", "a", "", "bin", TRUE, option, config)
          \/ InstallSteps
          \/ \E option, config \in BOOLEAN : UpdateStart("a", TRUE, "bin", option, config)
          \/ UpdateSteps
          \/ \E option, config \in BOOLEAN :
                CheckStart("", FALSE, option, config, FALSE, "bin")
          \/ CheckList
          \/ CheckNext]_vars

\* A running install or update holds the release its latest-release lookup gave.
Fetched ==
    /\ opts.op \in {"install", "update"}
    /\ pc # "idle"
    /\ loc.release # NoRelease

\* C40: in install, update and check the include-prereleases setting in effect is
\* the option or the configured value, whichever is true: with prereleases enabled
\* in the configuration the latest-release lookup takes a prerelease with and
\* without the option, and only with both off is it held to stable releases.
C40_ConfigEnablesPrereleases ==
    /\ (opts.op \in {"install", "update", "check"} /\ pc # "idle") =>
           opts.includePrereleases = (opts.option \/ opts.config)
    /\ Fetched => (loc.release.prerelease => (opts.option \/ opts.config))
    /\ (Checking /\ AfterItem /\ loc.looked /\ loc.pre # "") =>
           /\ opts.config => ListedLatest(loc.pre)
           /\ opts.option => ListedLatest(loc.pre)
           /\ (~opts.config /\ ~opts.option) => ListedLatest(loc.stable)

\* Prereleases enabled in the configuration only: check's lookup gives the prerelease.
C40_Witness ==
    /\ AfterItem
    /\ loc.looked
    /\ opts.config /\ ~opts.option
    /\ loc.pre = "v2" /\ loc.stable = "v1"
    /\ ListedLatest("v2")

\* Prereleases enabled in the configuration only: install puts a prerelease in place.
C40_WitnessInstall ==
    /\ InstallSucceeded
    /\ opts.config /\ ~opts.option
    /\ loc.release.prerelease

\* Prereleases enabled in the configuration only: update moves to a prerelease.
C40_WitnessUpdate ==
    /\ UpdateSucceeded
    /\ opts.op = "update"
    /\ opts.config /\ ~opts.option
    /\ loc.release.prerelease

====
